---------------------------- MODULE Spec2Model ----------------------------
(***************************************************************************)
(* Model of the Direct3D7 renderer backend of Dear ImGui                   *)
(* (src/ImGui/imgui_impl_dx7.cpp): the software clipper                    *)
(* (InsideBySide, IntersectWithSide, EmitClippedTri), the state backup     *)
(* (ImGui_ImplDX7_StateBackup), the font texture and the backend           *)
(* lifecycle, and ImGui_ImplDX7_RenderDrawData.                            *)
(*                                                                         *)
(* Numbers.  A C++ float is modelled as an exact rational <<n, d>> with    *)
(* d > 0 and gcd(n, d) = 1; rounding to float is modelled where the vertex *)
(* attributes are interpolated (IntersectWithSide32).  A D3DCOLOR is       *)
(* modelled as its four 8-bit channels <<a, r, g, b>>.  WORD values are    *)
(* kept modulo 2^16.                                                       *)
(***************************************************************************)
EXTENDS Integers, Sequences, FiniteSets, TLC

VARIABLES
    tri,       \* clipper harness: the input triangle <<a, b, c>>
    clipR,     \* clipper harness: the clip rectangle R
    clipScale, \* clipper harness: the length of one grid step of the input
    out_v,     \* clipper harness: the output vertices (std::vector<ClippedVert>)
    out_i,     \* clipper harness: the output indices (std::vector<WORD>, 0-based)
    re_v,      \* clipper harness: vertices of the re-clipped output
    re_i,      \* clipper harness: indices of the re-clipped output
    clipPc,    \* clipper harness: "input", "clipped", "clipped2", "reclipped" or
               \* "intersected"; fan harness: "input", "emitted" or "emitted2"
    clipSide,  \* clipper harness: the side IntersectWithSide was called with
    cvSize,    \* fan harness: cv.size(), the vertices the command's scratch buffer holds
    dev,       \* IDirect3DDevice7: the device state, key -> value
    refs,      \* COM reference count of every surface (0: does not exist)
    devBefore, \* dev when the last Capture / RenderDrawData started
    refsBefore,\* refs when the last Capture / RenderDrawData started
    backup,    \* state-backup harness: the ImGui_ImplDX7_StateBackup object
    bkPc,      \* state-backup harness: "idle", "captured" or "restored"
    mutated,   \* state-backup harness: the host wrote the device since the last Capture
    hostOps,   \* number of host writes to the device so far
    frame,     \* the ImDrawData of the last ImGui_ImplDX7_RenderDrawData call
    log,       \* the device calls that call made, in order
    rPc,       \* "idle" (the host draws its scene) or "rendered"
    io,        \* ImGuiIO: BackendRendererUserData, BackendRendererName, flag, Fonts->TexID
    g_FontTexture, \* static IDirectDrawSurface7* g_FontTexture
    created,   \* number of font surfaces DirectDraw has created so far
    comRefs,   \* COM reference counts of the device and the DirectDraw object
    fault,     \* "none", "assert" (IM_ASSERT failed) or "crash" (null dereference)
    asserts,   \* whether the build keeps IM_ASSERT
    sizeofImDrawIdx,   \* sizeof(ImDrawIdx) of the build, in bytes
    last       \* the last backend call: its name, what it returned, and
               \* g_FontTexture and created when it was entered

clipVars == <<tri, clipR, clipScale, out_v, out_i, re_v, re_i, clipPc, clipSide, cvSize>>
devVars == <<dev, refs, devBefore, refsBefore>>
bkVars == <<backup, bkPc, mutated, hostOps>>
renderVars == <<frame, log, rPc>>
lifeVars == <<io, g_FontTexture, created, comRefs, fault, asserts, sizeofImDrawIdx, last>>
vars == <<tri, clipR, clipScale, out_v, out_i, re_v, re_i, clipPc, clipSide, cvSize,
          dev, refs, devBefore, refsBefore, backup, bkPc, mutated, hostOps,
          frame, log, rPc, io, g_FontTexture, created, comRefs, fault, asserts,
          sizeofImDrawIdx, last>>

(***************************************************************************)
(* Exact rational arithmetic (the model of float)                          *)
(***************************************************************************)
RECURSIVE GCD(_, _)
GCD(a, b) == IF b = 0 THEN a ELSE GCD(b, a % b)

IAbs(i) == IF i < 0 THEN -i ELSE i

\* The rational n/d in lowest terms, d # 0.
Rat(n, d) ==
    LET g == GCD(IAbs(n), IAbs(d))
        s == IF d < 0 THEN -1 ELSE 1
    IN  <<s * (n \div g), s * (d \div g)>>

F(i) == <<i, 1>>

RAdd(p, q) ==
    LET g == GCD(p[2], q[2])
    IN  Rat(p[1] * (q[2] \div g) + q[1] * (p[2] \div g), (p[2] \div g) * q[2])

RNeg(p) == <<-p[1], p[2]>>

RSub(p, q) == RAdd(p, RNeg(q))

RMul(p, q) ==
    LET g1 == GCD(IAbs(p[1]), q[2])
        g2 == GCD(IAbs(q[1]), p[2])
    IN  IF p[1] = 0 \/ q[1] = 0 THEN <<0, 1>>
        ELSE <<(p[1] \div g1) * (q[1] \div g2), (p[2] \div g2) * (q[2] \div g1)>>

\* q # 0
RDiv(p, q) ==
    RMul(p, IF q[1] < 0 THEN <<-q[2], -q[1]>> ELSE <<q[2], q[1]>>)

RLt(p, q) ==
    LET g == GCD(p[2], q[2])
    IN  p[1] * (q[2] \div g) < q[1] * (p[2] \div g)

RLe(p, q) == ~RLt(q, p)

RAbs(p) == <<IAbs(p[1]), p[2]>>

\* (int)p for p >= 0: truncation.
RTrunc(p) == p[1] \div p[2]

(***************************************************************************)
(* Helpers for software clipping                                           *)
(***************************************************************************)
\* const float EPS = 1e-6f
EPS == <<1, 1000000>>

\* A vertex while clipping (struct ClippedVert); col is <<a, r, g, b>>.
Vert(x, y, z, rhw, col, u, v) ==
    [x |-> x, y |-> y, z |-> z, rhw |-> rhw, col |-> col, u |-> u, v |-> v]

\* A clip rectangle {minX, minY, maxX, maxY} (ImVec4 x, y, z, w).
Rect(minX, minY, maxX, maxY) == [x |-> minX, y |-> minY, z |-> maxX, w |-> maxY]

\* Mutant: the four half-planes taken exclusive of their boundary.
InsideBySide_Strict(p, R, side) ==
    CASE side = 0 -> RLt(R.x, p.x)
      [] side = 1 -> RLt(R.y, p.y)
      [] side = 2 -> RLt(p.x, R.z)
      [] OTHER    -> RLt(p.y, R.w)

\* side: 0=left, 1=top, 2=right, 3=bottom
InsideBySide(p, R, side) ==
    CASE side = 0 -> RLe(R.x, p.x)
      [] side = 1 -> RLe(R.y, p.y)
      [] side = 2 -> RLe(p.x, R.z)
      [] OTHER    -> RLe(p.y, R.w)

\* lerpB: (int)(a + t * (b - a) + 0.5f)
LerpB(a, b, t) == RTrunc(RAdd(RAdd(F(a), RMul(t, F(b - a))), <<1, 2>>))

\* Defensive clamp of t to [0, 1].
ClampT(t) == IF RLt(t, F(0)) THEN F(0) ELSE IF RLt(F(1), t) THEN F(1) ELSE t

\* The interpolated vertex at position (x, y) and (clamped) parameter t.
Interpolate(P, Q, x, y, t) ==
    [x   |-> x,
     y   |-> y,
     z   |-> RAdd(P.z, RMul(t, RSub(Q.z, P.z))),
     rhw |-> RAdd(P.rhw, RMul(t, RSub(Q.rhw, P.rhw))),
     col |-> <<LerpB(P.col[1], Q.col[1], t), LerpB(P.col[2], Q.col[2], t),
               LerpB(P.col[3], Q.col[3], t), LerpB(P.col[4], Q.col[4], t)>>,
     u   |-> RAdd(P.u, RMul(t, RSub(Q.u, P.u))),
     v   |-> RAdd(P.v, RMul(t, RSub(Q.v, P.v)))]

\* The vertex returned when the edge is (nearly) parallel to the clipped side.
ParallelFallback(P, Q) == P

\* Mutant: the free coordinate interpolated with the delta of the clipped axis.
IntersectWithSide_WrongDelta(P, Q, side, R) ==
    LET dx == RSub(Q.x, P.x)
        dy == RSub(Q.y, P.y)
    IN  IF side = 0 \/ side = 2
        THEN LET x == IF side = 0 THEN R.x ELSE R.z
             IN  IF RLt(RAbs(dx), EPS) THEN ParallelFallback(P, Q)
                 ELSE LET t == RDiv(RSub(x, P.x), dx)
                          y == RAdd(P.y, RMul(t, dx))
                      IN  Interpolate(P, Q, x, y, ClampT(t))
        ELSE LET y == IF side = 1 THEN R.y ELSE R.w
             IN  IF RLt(RAbs(dy), EPS) THEN ParallelFallback(P, Q)
                 ELSE LET t == RDiv(RSub(y, P.y), dy)
                          x == RAdd(P.x, RMul(t, dy))
                      IN  Interpolate(P, Q, x, y, ClampT(t))

IntersectWithSide(P, Q, side, R) ==
    LET dx == RSub(Q.x, P.x)
        dy == RSub(Q.y, P.y)
    IN  IF side = 0 \/ side = 2
        THEN LET x == IF side = 0 THEN R.x ELSE R.z
             IN  IF RLt(RAbs(dx), EPS) THEN ParallelFallback(P, Q)
                 ELSE LET t == RDiv(RSub(x, P.x), dx)
                          y == RAdd(P.y, RMul(t, dy))
                      IN  Interpolate(P, Q, x, y, ClampT(t))
        ELSE LET y == IF side = 1 THEN R.y ELSE R.w
             IN  IF RLt(RAbs(dy), EPS) THEN ParallelFallback(P, Q)
                 ELSE LET t == RDiv(RSub(y, P.y), dy)
                          x == RAdd(P.x, RMul(t, dx))
                      IN  Interpolate(P, Q, x, y, ClampT(t))

\* The significand of float: 24 bits.
FLT_MANT_DIG == 24

\* The number of bits of a positive integer below 2^30.
BitLen(n) == CHOOSE k \in 1 .. 30 : 2 ^ (k - 1) <= n /\ n < 2 ^ k

\* A value n / 2^k rounded to float: to FLT_MANT_DIG significant bits, to nearest,
\* ties to even (the exponent stays in the normal range for the values used).
Float32(q) ==
    LET n == IAbs(q[1])
    IN  IF n < 2 ^ FLT_MANT_DIG THEN q
        ELSE LET s    == BitLen(n) - FLT_MANT_DIG
                 m    == n \div 2 ^ s
                 rem  == n % 2 ^ s
                 half == 2 ^ (s - 1)
                 up   == IF rem > half \/ (rem = half /\ m % 2 = 1) THEN 1 ELSE 0
                 sign == IF q[1] < 0 THEN -1 ELSE 1
             IN  Rat(sign * (m + up) * 2 ^ s, q[2])

\* a + t * (b - a) on float operands: every operation rounded to float, or the
\* expression evaluated in a wider format and rounded when it is stored.
AttrLerp(a, b, t, wide) ==
    IF wide THEN Float32(RAdd(a, RMul(t, RSub(b, a))))
            ELSE Float32(RAdd(a, Float32(RMul(t, Float32(RSub(b, a))))))

\* The parameter t the attributes are interpolated with: 0.0f as initialised
\* when the parallel fallback returns, else the quotient, clamped.
SideParam(P, Q, side, R) ==
    LET dx == RSub(Q.x, P.x)
        dy == RSub(Q.y, P.y)
    IN  IF side = 0 \/ side = 2
        THEN IF RLt(RAbs(dx), EPS) THEN F(0)
             ELSE ClampT(Float32(RDiv(RSub(IF side = 0 THEN R.x ELSE R.z, P.x), dx)))
        ELSE IF RLt(RAbs(dy), EPS) THEN F(0)
             ELSE ClampT(Float32(RDiv(RSub(IF side = 1 THEN R.y ELSE R.w, P.y), dy)))

SideParallel(P, Q, side) ==
    IF side = 0 \/ side = 2 THEN RLt(RAbs(RSub(Q.x, P.x)), EPS)
                            ELSE RLt(RAbs(RSub(Q.y, P.y)), EPS)

\* IntersectWithSide with z, rhw, u and v computed in float arithmetic; the
\* position and the colour channels are exact for coordinates on a grid whose
\* quotients are multiples of 1/4.
IntersectWithSide32(P, Q, side, R, wide) ==
    IF SideParallel(P, Q, side) THEN ParallelFallback(P, Q)
    ELSE LET t == SideParam(P, Q, side, R)
         IN  [IntersectWithSide(P, Q, side, R) EXCEPT
                 !.z   = AttrLerp(P.z, Q.z, t, wide),
                 !.rhw = AttrLerp(P.rhw, Q.rhw, t, wide),
                 !.u   = AttrLerp(P.u, Q.u, t, wide),
                 !.v   = AttrLerp(P.v, Q.v, t, wide)]

\* Mutant: an entering edge contributes the intersection but not Q.
ClipEdge_EnterOmitsQ(P, Q, side, R) ==
    LET inP == InsideBySide(P, R, side)
        inQ == InsideBySide(Q, R, side)
    IN  IF inP /\ inQ THEN <<Q>>
        ELSE IF inP /\ ~inQ THEN <<IntersectWithSide(P, Q, side, R)>>
        ELSE IF ~inP /\ inQ THEN <<IntersectWithSide(P, Q, side, R)>>
        ELSE <<>>

\* Mutant: a leaving edge contributes the intersection and Q.
ClipEdge_LeaveKeepsQ(P, Q, side, R) ==
    LET inP == InsideBySide(P, R, side)
        inQ == InsideBySide(Q, R, side)
    IN  IF inP /\ inQ THEN <<Q>>
        ELSE IF inP /\ ~inQ THEN <<IntersectWithSide(P, Q, side, R), Q>>
        ELSE IF ~inP /\ inQ THEN <<IntersectWithSide(P, Q, side, R), Q>>
        ELSE <<>>

\* What one edge P -> Q contributes to the next polygon.
ClipEdge(P, Q, side, R) ==
    LET inP == InsideBySide(P, R, side)
        inQ == InsideBySide(Q, R, side)
    IN  IF inP /\ inQ THEN <<Q>>
        ELSE IF inP /\ ~inQ THEN <<IntersectWithSide(P, Q, side, R)>>
        ELSE IF ~inP /\ inQ THEN <<IntersectWithSide(P, Q, side, R), Q>>
        ELSE <<>>

\* One Sutherland-Hodgman pass: the inner loop over i = 0 .. n-1.
RECURSIVE ClipLoop(_, _, _, _)
ClipLoop(poly, side, R, i) ==
    IF i > Len(poly) THEN <<>>
    ELSE ClipEdge(poly[i], poly[(i % Len(poly)) + 1], side, R)
         \o ClipLoop(poly, side, R, i + 1)

ClipSide(poly, side, R) == ClipLoop(poly, side, R, 1)

\* ClippedVert poly[8], next[8].
PolySlots == 8

\* The outer loop: for (side = 0; side < 4 && n; ++side).
RECURSIVE ClipPoly(_, _, _)
ClipPoly(poly, side, R) ==
    IF side >= 4 \/ Len(poly) = 0 THEN poly
    ELSE ClipPoly(ClipSide(poly, side, R), side + 1, R)

\* WORD arithmetic.
WordMod == 65536
ToWord(i) == i % WordMod

\* Fan indices (base, base+i, base+i+1) for i = 1 .. n-2, as WORDs.
RECURSIVE FanIndices(_, _, _)
FanIndices(base, n, i) ==
    IF i >= n - 1 THEN <<>>
    ELSE <<base, ToWord(base + i), ToWord(base + i + 1)>> \o FanIndices(base, n, i + 1)

\* EmitClippedTri: the new <<out_v, out_i>>.
EmitClippedTri(a, b, c, R, ov, oi) ==
    LET poly == ClipPoly(<<a, b, c>>, 0, R)
        n    == Len(poly)
        base == ToWord(Len(ov))
    IN  IF n < 3 THEN <<ov, oi>>
        ELSE <<ov \o poly, oi \o FanIndices(base, n, 1)>>

\* The end of EmitClippedTri for a clipped polygon of n vertices, on a vertex
\* buffer that holds size vertices: <<out_v.size(), out_i>> afterwards.
EmitFan(n, size, oi) ==
    IF n < 3 THEN <<size, oi>>
    ELSE <<size + n, oi \o FanIndices(ToWord(size), n, 1)>>

\* The triangle loop of a command (for t = 0; t < ElemCount; t += 3): every
\* index triplet is fetched from vstart/istart and clipped into cv/ci.
RECURSIVE ClipTriangles(_, _, _, _, _, _)
ClipTriangles(vstart, istart, ElemCount, R, t, acc) ==
    IF t >= ElemCount THEN acc
    ELSE CHOOSE done \in
             {ClipTriangles(vstart, istart, ElemCount, R, t + 3, pushed) :
                 pushed \in {EmitClippedTri(vstart[istart[t + 1] + 1],
                                            vstart[istart[t + 2] + 1],
                                            vstart[istart[t + 3] + 1], R, acc[1], acc[2])}} :
             TRUE

(***************************************************************************)
(* The Direct3D7 device as the backend uses it                             *)
(***************************************************************************)
\* Surfaces: the null pointer, the host's textures, the backend's font textures.
NullSurface == <<"null", 0>>

UserTexture(n) == <<"user", n>>

FontTexture(n) == <<"font", n>>

\* How many font surfaces DirectDraw creates at most.
MaxSurfaces == 2

Surfaces == {UserTexture(1), UserTexture(2)} \cup {FontTexture(n) : n \in 1 .. MaxSurfaces}

TransformKeys == {"WORLD", "VIEW", "PROJECTION"}

RenderStateKeys ==
    {"ALPHABLENDENABLE", "SRCBLEND", "DESTBLEND", "ZENABLE", "ZWRITEENABLE", "CULLMODE",
     "LIGHTING", "SHADEMODE", "FOGENABLE", "CLIPPING"}

Tss0OpKeys ==
    {"TSS0_COLOROP", "TSS0_COLORARG1", "TSS0_COLORARG2", "TSS0_ALPHAOP", "TSS0_ALPHAARG1",
     "TSS0_ALPHAARG2"}

Tss1OpKeys == {"TSS1_COLOROP", "TSS1_ALPHAOP"}

Tss0SamplerKeys ==
    {"TSS0_MINFILTER", "TSS0_MAGFILTER", "TSS0_MIPFILTER", "TSS0_ADDRESSU", "TSS0_ADDRESSV"}

\* A render state the backend never reads or writes.
HostOnlyKeys == {"AMBIENT"}

ValueKeys ==
    TransformKeys \cup RenderStateKeys \cup Tss0OpKeys \cup Tss1OpKeys \cup Tss0SamplerKeys
    \cup HostOnlyKeys \cup {"VIEWPORT"}

DeviceKeys == ValueKeys \cup {"TEX0"}

\* The writes of ImGui_ImplDX7_SetupRenderState, in code order.
SetupTable ==
    << <<"ZENABLE", "FALSE">>, <<"ZWRITEENABLE", "FALSE">>, <<"CULLMODE", "D3DCULL_NONE">>,
       <<"ALPHABLENDENABLE", "TRUE">>, <<"SRCBLEND", "D3DBLEND_SRCALPHA">>,
       <<"DESTBLEND", "D3DBLEND_INVSRCALPHA">>, <<"LIGHTING", "FALSE">>,
       <<"SHADEMODE", "D3DSHADE_GOURAUD">>, <<"FOGENABLE", "FALSE">>, <<"CLIPPING", "TRUE">>,
       <<"TSS0_COLOROP", "D3DTOP_MODULATE">>, <<"TSS0_COLORARG1", "D3DTA_TEXTURE">>,
       <<"TSS0_COLORARG2", "D3DTA_DIFFUSE">>, <<"TSS0_ALPHAOP", "D3DTOP_MODULATE">>,
       <<"TSS0_ALPHAARG1", "D3DTA_TEXTURE">>, <<"TSS0_ALPHAARG2", "D3DTA_DIFFUSE">>,
       <<"TSS1_COLOROP", "D3DTOP_DISABLE">>, <<"TSS1_ALPHAOP", "D3DTOP_DISABLE">>,
       <<"TSS0_MINFILTER", "D3DTFN_LINEAR">>, <<"TSS0_MAGFILTER", "D3DTFG_LINEAR">>,
       <<"TSS0_MIPFILTER", "D3DTFP_POINT">>, <<"TSS0_ADDRESSU", "D3DTADDRESS_CLAMP">>,
       <<"TSS0_ADDRESSV", "D3DTADDRESS_CLAMP">>,
       <<"WORLD", "IDENTITY">>, <<"VIEW", "IDENTITY">>, <<"PROJECTION", "IDENTITY">> >>

\* A value of each state other than the one SetupRenderState writes.
HostValue(k) ==
    CASE k \in TransformKeys -> "HOST_MATRIX"
      [] k \in {"ZENABLE", "ZWRITEENABLE", "LIGHTING", "FOGENABLE"} -> "TRUE"
      [] k \in {"ALPHABLENDENABLE", "CLIPPING"} -> "FALSE"
      [] k = "CULLMODE" -> "D3DCULL_CCW"
      [] k = "SRCBLEND" -> "D3DBLEND_ONE"
      [] k = "DESTBLEND" -> "D3DBLEND_ZERO"
      [] k = "SHADEMODE" -> "D3DSHADE_FLAT"
      [] k \in {"TSS0_COLOROP", "TSS0_ALPHAOP"} -> "D3DTOP_SELECTARG1"
      [] k \in {"TSS0_COLORARG1", "TSS0_ALPHAARG1"} -> "D3DTA_DIFFUSE"
      [] k \in {"TSS0_COLORARG2", "TSS0_ALPHAARG2"} -> "D3DTA_CURRENT"
      [] k \in Tss1OpKeys -> "D3DTOP_MODULATE"
      [] k = "TSS0_MINFILTER" -> "D3DTFN_POINT"
      [] k = "TSS0_MAGFILTER" -> "D3DTFG_POINT"
      [] k = "TSS0_MIPFILTER" -> "D3DTFP_NONE"
      [] k \in {"TSS0_ADDRESSU", "TSS0_ADDRESSV"} -> "D3DTADDRESS_WRAP"
      [] k = "AMBIENT" -> "HOST_AMBIENT"
      [] OTHER -> "VP_FULL"

SetupValue(k) ==
    IF \E n \in 1 .. Len(SetupTable) : SetupTable[n][1] = k
    THEN SetupTable[CHOOSE n \in 1 .. Len(SetupTable) : SetupTable[n][1] = k][2]
    ELSE IF k = "VIEWPORT" THEN "VP_HALF" ELSE "ZERO"

\* The two values a state takes in the model.
ValuesOf(k) == {HostValue(k), SetupValue(k)}

\* A device is [state |-> key -> value, refs |-> surface -> count].
AddRef(rc, surf) == IF surf = NullSurface THEN rc ELSE [rc EXCEPT ![surf] = @ + 1]

Release(rc, surf) == IF surf = NullSurface THEN rc ELSE [rc EXCEPT ![surf] = @ - 1]

\* SetRenderState / SetTextureStageState / SetTransform / SetViewport
SetState(d, k, v) == [d EXCEPT !.state[k] = v]

\* SetTexture(0, surf): the device holds a reference on the texture of a stage.
SetTexture(d, surf) ==
    [state |-> [d.state EXCEPT !["TEX0"] = surf],
     refs  |-> Release(AddRef(d.refs, surf), d.state["TEX0"])]

RECURSIVE ApplyWrites(_, _, _)
ApplyWrites(d, table, n) ==
    IF n > Len(table) THEN d
    ELSE ApplyWrites(SetState(d, table[n][1], table[n][2]), table, n + 1)

\* ImGui_ImplDX7_SetupRenderState
SetupRenderState(d) == ApplyWrites(d, SetupTable, 1)

(***************************************************************************)
(* ImGui_ImplDX7_StateBackup                                               *)
(***************************************************************************)
\* Capture: <<device state, struct field>> in code order (tex0 apart).
CaptureTable ==
    << <<"WORLD", "world">>, <<"VIEW", "view">>, <<"PROJECTION", "proj">>,
       <<"ALPHABLENDENABLE", "rs_alpha_blend">>, <<"SRCBLEND", "rs_src_blend">>,
       <<"DESTBLEND", "rs_dst_blend">>, <<"ZENABLE", "rs_zenable">>,
       <<"ZWRITEENABLE", "rs_zwrite">>, <<"CULLMODE", "rs_cullmode">>,
       <<"LIGHTING", "rs_lighting">>, <<"SHADEMODE", "rs_shade">>, <<"FOGENABLE", "rs_fog">>,
       <<"CLIPPING", "rs_clipping">>,
       <<"TSS0_COLOROP", "tss0_colorop">>, <<"TSS0_COLORARG1", "tss0_colorarg1">>,
       <<"TSS0_COLORARG2", "tss0_colorarg2">>, <<"TSS0_ALPHAOP", "tss0_alphaop">>,
       <<"TSS0_ALPHAARG1", "tss0_alphaarg1">>, <<"TSS0_ALPHAARG2", "tss0_alphaarg2">>,
       <<"TSS1_COLOROP", "tss1_colorop">>, <<"TSS1_ALPHAOP", "tss1_alphaop">>,
       <<"VIEWPORT", "viewport">> >>

\* Restore: <<device state, struct field>> in code order (tex0 apart).
RestoreTable ==
    << <<"WORLD", "world">>, <<"VIEW", "view">>, <<"PROJECTION", "proj">>,
       <<"ALPHABLENDENABLE", "rs_alpha_blend">>, <<"SRCBLEND", "rs_src_blend">>,
       <<"DESTBLEND", "rs_dst_blend">>, <<"ZENABLE", "rs_zenable">>,
       <<"ZWRITEENABLE", "rs_zwrite">>, <<"CULLMODE", "rs_cullmode">>,
       <<"LIGHTING", "rs_lighting">>, <<"SHADEMODE", "rs_shade">>, <<"FOGENABLE", "rs_fog">>,
       <<"CLIPPING", "rs_clipping">>,
       <<"TSS0_COLOROP", "tss0_colorop">>, <<"TSS0_COLORARG1", "tss0_colorarg1">>,
       <<"TSS0_COLORARG2", "tss0_colorarg2">>, <<"TSS0_ALPHAOP", "tss0_alphaop">>,
       <<"TSS0_ALPHAARG1", "tss0_alphaarg1">>, <<"TSS0_ALPHAARG2", "tss0_alphaarg2">>,
       <<"TSS1_COLOROP", "tss1_colorop">>, <<"TSS1_ALPHAOP", "tss1_alphaop">>,
       <<"VIEWPORT", "viewport">> >>

BackupFields == {CaptureTable[n][2] : n \in 1 .. Len(CaptureTable)}

\* ImGui_ImplDX7_StateBackup backup{}: every member value-initialised.
EmptyBackup == [vals |-> [f \in BackupFields |-> "ZERO"], tex0 |-> NullSurface]

\* Capture: every Get call fills its member; GetTexture AddRef()s the texture.
Capture(d) ==
    [snap |-> [vals |-> [f \in BackupFields |->
                   d.state[CaptureTable[CHOOSE n \in 1 .. Len(CaptureTable) :
                                            CaptureTable[n][2] = f][1]]],
               tex0 |-> d.state["TEX0"]],
     d    |-> [d EXCEPT !.refs = AddRef(@, d.state["TEX0"])]]

RECURSIVE RestoreWrites(_, _, _)
RestoreWrites(snap, d, n) ==
    IF n > Len(RestoreTable) THEN d
    ELSE RestoreWrites(snap, SetState(d, RestoreTable[n][1], snap.vals[RestoreTable[n][2]]),
                       n + 1)

\* Mutant: Restore without tex0->Release().
Restore_NoRelease(snap, d) == RestoreWrites(snap, SetTexture(d, snap.tex0), 1)

\* Restore: every member written back; SetTexture(0, tex0); if (tex0) tex0->Release().
Restore(snap, d) ==
    LET bound == SetTexture(d, snap.tex0)
    IN  RestoreWrites(snap, [bound EXCEPT !.refs = Release(@, snap.tex0)], 1)

(***************************************************************************)
(* ImGui_ImplDX7_RenderDrawData                                            *)
(*                                                                         *)
(* ImDrawData is [DisplayPos, DisplaySize, FramebufferScale, CmdLists];    *)
(* an ImDrawList is [VtxBuffer, IdxBuffer, CmdBuffer]; an ImDrawCmd is     *)
(* [UserCallback, Writes, TexID, ClipRect, VtxOffset, IdxOffset,           *)
(* ElemCount], where UserCallback is "NULL", "ResetRenderState" (the       *)
(* ImDrawCallback_ResetRenderState sentinel) or "user", and Writes are the *)
(* device states a user callback sets.  An ImDrawVert is [pos, uv, col],   *)
(* col being the bytes of the ImU32 from the top one down.                 *)
(* The render pass is [d |-> device, log |-> device calls so far,          *)
(* cv, ci |-> the scratch buffers of the last command processed].  A loop  *)
(* is a recursion whose next iteration receives the value of the previous  *)
(* one (CHOOSE done \in {Loop(next) : next \in {Body}} : TRUE).            *)
(***************************************************************************)
\* IMGUI_COL_TO_DX_ARGB without IMGUI_USE_BGRA_PACKED_COLOR: bytes 2 and 4
\* (bits 16..23 and 0..7) change places.
ColToArgb(col) == <<col[1], col[4], col[3], col[2]>>

\* (pos - DisplayPos) * FramebufferScale, z = 0, rhw = 1, colour converted, uv copied.
ToDeviceVertex(v, clip_off, clip_scale) ==
    Vert(RMul(RSub(v.pos[1], clip_off[1]), clip_scale[1]),
         RMul(RSub(v.pos[2], clip_off[2]), clip_scale[2]),
         F(0), F(1), ColToArgb(v.col), v.uv[1], v.uv[2])

\* The contiguous vertex buffer of the frame, from draw list n on.
RECURSIVE BuildVbuf(_, _)
BuildVbuf(dd, n) ==
    IF n > Len(dd.CmdLists) THEN <<>>
    ELSE [k \in 1 .. Len(dd.CmdLists[n].VtxBuffer) |->
             ToDeviceVertex(dd.CmdLists[n].VtxBuffer[k], dd.DisplayPos, dd.FramebufferScale)]
         \o BuildVbuf(dd, n + 1)

\* The contiguous index buffer of the frame, from draw list n on (memcpy).
RECURSIVE BuildIbuf(_, _)
BuildIbuf(dd, n) ==
    IF n > Len(dd.CmdLists) THEN <<>>
    ELSE dd.CmdLists[n].IdxBuffer \o BuildIbuf(dd, n + 1)

\* The clip rectangle of a command in framebuffer space: <<cr_min, cr_max>>.
ClipRectToFramebuffer(cmd, dd) ==
    << <<RMul(RSub(cmd.ClipRect[1], dd.DisplayPos[1]), dd.FramebufferScale[1]),
         RMul(RSub(cmd.ClipRect[2], dd.DisplayPos[2]), dd.FramebufferScale[2])>>,
       <<RMul(RSub(cmd.ClipRect[3], dd.DisplayPos[1]), dd.FramebufferScale[1]),
         RMul(RSub(cmd.ClipRect[4], dd.DisplayPos[2]), dd.FramebufferScale[2])>> >>

\* Mutant: the coarse reject without the tests against the framebuffer size.
CoarseReject_NoSizeTest(cr_min, cr_max, fb_width, fb_height) ==
    \/ RLe(cr_max[1], cr_min[1]) \/ RLe(cr_max[2], cr_min[2])
    \/ RLt(cr_max[1], F(0)) \/ RLt(cr_max[2], F(0))

\* Skip if empty or fully out of bounds (coarse reject).
CoarseReject(cr_min, cr_max, fb_width, fb_height) ==
    \/ RLe(cr_max[1], cr_min[1]) \/ RLe(cr_max[2], cr_min[2])
    \/ RLt(cr_max[1], F(0)) \/ RLt(cr_max[2], F(0))
    \/ RLt(F(fb_width), cr_min[1]) \/ RLt(F(fb_height), cr_min[2])

\* Clamp to framebuffer bounds: the rectangle R handed to the clipper.
ClampToFramebuffer(cr_min, cr_max, fb_width, fb_height) ==
    Rect(IF RLt(cr_min[1], F(0)) THEN F(0) ELSE cr_min[1],
         IF RLt(cr_min[2], F(0)) THEN F(0) ELSE cr_min[2],
         IF RLt(F(fb_width), cr_max[1]) THEN F(fb_width) ELSE cr_max[1],
         IF RLt(F(fb_height), cr_max[2]) THEN F(fb_height) ELSE cr_max[2])

Logged(st, ev) == [st EXCEPT !.log = Append(@, ev)]

\* Mutant: the scratch buffers of the previous command are kept.
FreshScratch_Kept(st) == <<st.cv, st.ci>>

\* std::vector<ClippedVert> cv; std::vector<WORD> ci; declared per command.
FreshScratch(st) == <<<<>>, <<>>>>

\* Mutant: the callback is invoked and nothing is reset after it.
RenderCallback_NoReset(st, cmd, n, cmd_i, snap) ==
    Logged([st EXCEPT !.d = ApplyWrites(@, cmd.Writes, 1)],
           [op |-> "UserCallback", list |-> n, cmd |-> cmd_i])

\* A command with a callback.
RenderCallback(st, cmd, n, cmd_i, snap) ==
    IF cmd.UserCallback = "ResetRenderState"
    THEN Logged([st EXCEPT !.d = SetupRenderState(@)],
                [op |-> "SetupRenderState", list |-> n, cmd |-> cmd_i])
    ELSE LET called == Logged([st EXCEPT !.d = ApplyWrites(@, cmd.Writes, 1)],
                              [op |-> "UserCallback", list |-> n, cmd |-> cmd_i])
             reset  == Logged([called EXCEPT !.d = SetupRenderState(@)],
                              [op |-> "SetupRenderState", list |-> n, cmd |-> cmd_i])
         IN  Logged([reset EXCEPT !.d = SetState(@, "VIEWPORT", snap.vals["viewport"])],
                    [op |-> "SetViewport", list |-> n, cmd |-> cmd_i])

\* Submit clipped triangles (if any): the scratch buffers after the triangle
\* loop go to DrawIndexedPrimitive unless ci is empty.
SubmitClipped(bound, clipped, n, cmd_i) ==
    IF clipped[2] # <<>>
    THEN Logged([bound EXCEPT !.cv = clipped[1], !.ci = clipped[2]],
                [op |-> "DrawIndexedPrimitive", v |-> clipped[1], i |-> clipped[2],
                 state |-> bound.d.state, list |-> n, cmd |-> cmd_i])
    ELSE [bound EXCEPT !.cv = clipped[1], !.ci = clipped[2]]

\* Mutant: the texture is bound only when it is not the one bound already.
BindTexture_OnChange(st, cmd, n, cmd_i) ==
    IF st.d.state["TEX0"] = cmd.TexID THEN st
    ELSE Logged([st EXCEPT !.d = SetTexture(@, cmd.TexID)],
                [op |-> "SetTexture", tex |-> cmd.TexID, list |-> n, cmd |-> cmd_i])

\* Bind the texture for this draw: d3d->SetTexture(0, pcmd->GetTexID()).
BindTexture(st, cmd, n, cmd_i) ==
    Logged([st EXCEPT !.d = SetTexture(@, cmd.TexID)],
           [op |-> "SetTexture", tex |-> cmd.TexID, list |-> n, cmd |-> cmd_i])

\* Mutant: vstart and istart without the global offsets of the preceding lists.
RenderGeometry_NoGlobalOffset(st, cmd, n, cmd_i, R, vbuf, ibuf, global_vtx_offset, global_idx_offset) ==
    SubmitClipped(BindTexture(st, cmd, n, cmd_i),
                  ClipTriangles(SubSeq(vbuf, cmd.VtxOffset + 1, Len(vbuf)),
                                SubSeq(ibuf, cmd.IdxOffset + 1, Len(ibuf)),
                                cmd.ElemCount, R, 0, FreshScratch(st)),
                  n, cmd_i)

\* A command with geometry that passed the coarse reject: the texture bind,
\* vstart and istart, the triangle loop on fresh scratch buffers, the draw call.
RenderGeometry(st, cmd, n, cmd_i, R, vbuf, ibuf, global_vtx_offset, global_idx_offset) ==
    SubmitClipped(BindTexture(st, cmd, n, cmd_i),
                  ClipTriangles(SubSeq(vbuf, cmd.VtxOffset + global_vtx_offset + 1, Len(vbuf)),
                                SubSeq(ibuf, cmd.IdxOffset + global_idx_offset + 1, Len(ibuf)),
                                cmd.ElemCount, R, 0, FreshScratch(st)),
                  n, cmd_i)

\* A command without callback, its clip rectangle cr in framebuffer space.
RenderClipped(st, cmd, n, cmd_i, cr, fb, vbuf, ibuf, global_vtx_offset, global_idx_offset) ==
    IF CoarseReject(cr[1], cr[2], fb[1], fb[2]) THEN st
    ELSE RenderGeometry(st, cmd, n, cmd_i, ClampToFramebuffer(cr[1], cr[2], fb[1], fb[2]),
                        vbuf, ibuf, global_vtx_offset, global_idx_offset)

\* One iteration of the command loop.
RenderCmd(st, dd, cmd, n, cmd_i, fb, vbuf, ibuf, global_vtx_offset, global_idx_offset, snap) ==
    IF cmd.UserCallback # "NULL" THEN RenderCallback(st, cmd, n, cmd_i, snap)
    ELSE RenderClipped(st, cmd, n, cmd_i, ClipRectToFramebuffer(cmd, dd), fb, vbuf, ibuf,
                       global_vtx_offset, global_idx_offset)

\* The command loop of draw list n, from command cmd_i on.
RECURSIVE RenderCmds(_, _, _, _, _, _, _, _, _, _)
RenderCmds(st, dd, n, cmd_i, fb, vbuf, ibuf, global_vtx_offset, global_idx_offset, snap) ==
    IF cmd_i > Len(dd.CmdLists[n].CmdBuffer) THEN st
    ELSE CHOOSE done \in
             {RenderCmds(next, dd, n, cmd_i + 1, fb, vbuf, ibuf, global_vtx_offset,
                         global_idx_offset, snap) :
                 next \in {RenderCmd(st, dd, dd.CmdLists[n].CmdBuffer[cmd_i], n, cmd_i, fb,
                                     vbuf, ibuf, global_vtx_offset, global_idx_offset, snap)}} :
             TRUE

\* The draw list loop, from list n on, advancing the global offsets.
RECURSIVE RenderLists(_, _, _, _, _, _, _, _, _)
RenderLists(st, dd, n, fb, vbuf, ibuf, global_vtx_offset, global_idx_offset, snap) ==
    IF n > Len(dd.CmdLists) THEN st
    ELSE CHOOSE done \in
             {RenderLists(next, dd, n + 1, fb, vbuf, ibuf,
                          global_vtx_offset + Len(dd.CmdLists[n].VtxBuffer),
                          global_idx_offset + Len(dd.CmdLists[n].IdxBuffer), snap) :
                 next \in {RenderCmds(st, dd, n, 1, fb, vbuf, ibuf, global_vtx_offset,
                                      global_idx_offset, snap)}} :
             TRUE

\* The framebuffer size <<fb_width, fb_height>>: (int)(DisplaySize * FramebufferScale).
FramebufferSize(dd) ==
    <<RTrunc(RMul(dd.DisplaySize[1], dd.FramebufferScale[1])),
      RTrunc(RMul(dd.DisplaySize[2], dd.FramebufferScale[2]))>>

\* backup.Restore(d3d) at the end of the pass.
RestoreAfter(snap, walked) ==
    [d   |-> Restore(snap, walked.d),
     log |-> Append(walked.log, [op |-> "Restore", list |-> 0, cmd |-> 0])]

\* The pass between Capture and Restore: SetupRenderState, the buffers, the
\* draw list loop, then Restore.
RenderCaptured(dd, c) ==
    RestoreAfter(c.snap,
                 RenderLists([d   |-> SetupRenderState(c.d),
                              log |-> <<[op |-> "Capture", list |-> 0, cmd |-> 0],
                                        [op |-> "SetupRenderState", list |-> 0, cmd |-> 0]>>,
                              cv  |-> <<>>, ci |-> <<>>],
                             dd, 1, FramebufferSize(dd), BuildVbuf(dd, 1), BuildIbuf(dd, 1),
                             0, 0, c.snap))

\* ImGui_ImplDX7_RenderDrawData on device d with an initialised backend:
\* [d |-> the device afterwards, log |-> the device calls made].
RenderDrawData(dd, d) ==
    IF RLe(dd.DisplaySize[1], F(0)) \/ RLe(dd.DisplaySize[2], F(0))
    THEN [d |-> d, log |-> <<>>]
    ELSE RenderCaptured(dd, Capture(d))

(***************************************************************************)
(* Specification SpecClip: EmitClippedTri applied to bounded inputs        *)
(***************************************************************************)
\* Grid coordinates are k * scale for k in 0 .. MaxCoord.
MaxCoord == 2

\* Half a micro-pixel: edges of one grid step at this scale are shorter than EPS.
Delta == <<1, 2000000>>

Scales == {F(1), Delta}

\* Vertex slot attributes (z = 0 and rhw = 1 as the renderer produces them).
SlotCol(slot) ==
    CASE slot = 1 -> <<255, 255, 0, 0>>
      [] slot = 2 -> <<255, 0, 255, 0>>
      [] OTHER    -> <<128, 0, 0, 255>>

SlotU(slot) == IF slot = 2 THEN F(1) ELSE F(0)

SlotV(slot) == IF slot = 3 THEN F(1) ELSE F(0)

GridVert(slot, kx, ky, s) ==
    Vert(RMul(F(kx), s), RMul(F(ky), s), F(0), F(1), SlotCol(slot), SlotU(slot), SlotV(slot))

GridRect(r, s) == Rect(RMul(F(r[1]), s), RMul(F(r[2]), s), RMul(F(r[3]), s), RMul(F(r[4]), s))

\* Rectangles with minX < maxX and minY < maxY, in grid steps.
GridRects == {<<1, 1, 2, 2>>, <<0, 0, 1, 1>>}

GridInputs ==
    {[tri |-> <<GridVert(1, ax, ay, s), GridVert(2, bx, by, s), GridVert(3, cx, cy, s)>>,
      R |-> GridRect(r, s), scale |-> s] :
        <<ax, ay, bx, by, cx, cy, r, s>> \in
            (0 .. MaxCoord) \X (0 .. MaxCoord) \X (0 .. MaxCoord) \X (0 .. MaxCoord)
            \X (0 .. MaxCoord) \X (0 .. MaxCoord) \X GridRects \X Scales}

\* The scenario R = [10,10,20,20], triangle (0,0)-(30,0)-(0,30).
ScenarioTri == <<GridVert(1, 0, 0, F(1)), GridVert(2, 30, 0, F(1)), GridVert(3, 0, 30, F(1))>>

ScenarioRect == Rect(F(10), F(10), F(20), F(20))

\* A triangle that crosses all four sides of the scenario rectangle.
CrossingTri == <<GridVert(1, 0, 0, F(1)), GridVert(2, 10, 15, F(1)), GridVert(3, 35, 30, F(1))>>

ClipInputs ==
    GridInputs \cup {[tri |-> ScenarioTri, R |-> ScenarioRect, scale |-> F(1)],
                     [tri |-> CrossingTri, R |-> ScenarioRect, scale |-> F(1)]}

\* The device as the host leaves it: nothing has ImGui's value, no texture bound.
HostDefaultState == [k \in DeviceKeys |-> IF k = "TEX0" THEN NullSurface ELSE HostValue(k)]

\* The host holds one reference on each of its textures; no font surface exists.
HostDefaultRefs == [surf \in Surfaces |-> IF surf[1] = "user" THEN 1 ELSE 0]

\* The parts of the state a specification does not use.
ClipIdle ==
    /\ tri = <<>> /\ clipR = <<>> /\ clipScale = F(1)
    /\ out_v = <<>> /\ out_i = <<>> /\ re_v = <<>> /\ re_i = <<>>
    /\ clipPc = "idle" /\ clipSide = 0 /\ cvSize = 0

DeviceIdle ==
    /\ dev = HostDefaultState /\ refs = HostDefaultRefs
    /\ devBefore = HostDefaultState /\ refsBefore = HostDefaultRefs

BackupIdle == backup = EmptyBackup /\ bkPc = "idle" /\ mutated = FALSE /\ hostOps = 0

\* ImDrawData with nothing to draw.
EmptyDrawData ==
    [DisplayPos |-> <<F(0), F(0)>>, DisplaySize |-> <<F(0), F(0)>>,
     FramebufferScale |-> <<F(1), F(1)>>, CmdLists |-> <<>>]

RenderIdle == frame = EmptyDrawData /\ log = <<>> /\ rPc = "idle"

\* io.BackendRendererUserData: nullptr, or an ImGui_ImplDX7_Data {d3d, ddraw}.
NullData == [null |-> TRUE, d3d |-> "NULL", ddraw |-> "NULL"]

BackendData(device, ddraw) == [null |-> FALSE, d3d |-> device, ddraw |-> ddraw]

\* ImGuiIO before ImGui_ImplDX7_Init: no backend data, no font texture id.
IoUnset ==
    [BackendRendererUserData |-> NullData, BackendRendererName |-> "NULL",
     RendererHasVtxOffset |-> FALSE, TexID |-> NullSurface]

NoCall == [call |-> "none", ret |-> "void", font |-> NullSurface, created |-> 0,
           attempts |-> <<>>, written |-> FALSE]

\* The host holds one reference on its device and one on its DirectDraw object.
HostComRefs == [d3d |-> 1, ddraw |-> 1]

\* Before ImGui_ImplDX7_Init.
LifeIdle ==
    /\ io = IoUnset /\ g_FontTexture = NullSurface /\ created = 0
    /\ comRefs = HostComRefs /\ fault = "none" /\ asserts = TRUE
    /\ sizeofImDrawIdx = 2
    /\ last = NoCall

ClipInit ==
    /\ \E inp \in ClipInputs : tri = inp.tri /\ clipR = inp.R /\ clipScale = inp.scale
    /\ out_v = <<>>
    /\ out_i = <<>>
    /\ re_v = <<>>
    /\ re_i = <<>>
    /\ clipPc = "input"
    /\ clipSide = 0
    /\ cvSize = 0
    /\ DeviceIdle
    /\ BackupIdle
    /\ RenderIdle
    /\ LifeIdle

\* EmitClippedTri(a, b, c, R, out_v, out_i) on empty buffers.
ClipTri ==
    /\ clipPc = "input"
    /\ \E res \in {EmitClippedTri(tri[1], tri[2], tri[3], clipR, out_v, out_i)} :
          out_v' = res[1] /\ out_i' = res[2]
    /\ clipPc' = "clipped"
    /\ UNCHANGED <<tri, clipR, clipScale, re_v, re_i, clipSide, cvSize, devVars, bkVars, renderVars, lifeVars>>

\* The same triplet once more in the command: EmitClippedTri on the filled buffers.
ClipAgain ==
    /\ clipPc = "clipped"
    /\ \E res \in {EmitClippedTri(tri[1], tri[2], tri[3], clipR, out_v, out_i)} :
          out_v' = res[1] /\ out_i' = res[2]
    /\ clipPc' = "clipped2"
    /\ UNCHANGED <<tri, clipR, clipScale, re_v, re_i, clipSide, cvSize, devVars, bkVars, renderVars, lifeVars>>

\* The emitted vertices/indices clipped again against the same R, into fresh buffers.
Reclip ==
    /\ clipPc = "clipped"
    /\ \E res \in {ClipTriangles(out_v, out_i, Len(out_i), clipR, 0, <<<<>>, <<>>>>)} :
          re_v' = res[1] /\ re_i' = res[2]
    /\ clipPc' = "reclipped"
    /\ UNCHANGED <<tri, clipR, clipScale, out_v, out_i, clipSide, cvSize, devVars, bkVars, renderVars, lifeVars>>

ClipNext == ClipTri \/ ClipAgain \/ Reclip

SpecClip == ClipInit /\ [][ClipNext]_vars

(***************************************************************************)
(* Specification SpecLerp: IntersectWithSide on one edge, with the vertex  *)
(* attributes in float arithmetic                                          *)
(***************************************************************************)
\* Coordinates of P and Q, and the sides of the rectangle, in pixels: every
\* quotient (x - P.x) / dx is a multiple of 1/4.
LerpCoords == {0, 2, 4}

LerpRects == {Rect(F(1), F(1), F(3), F(3)), Rect(F(0), F(2), F(4), F(4))}

\* 0.1f and 0.7f.
Tenth32 == <<13421773, 134217728>>

SevenTenths32 == <<11744051, 16777216>>

\* Texture coordinates: atlas corners, a texel centre, and the two above.
LerpAttrs == {F(0), F(1), <<1, 2>>, Tenth32, SevenTenths32}

LerpVert(slot, x, y, u) == Vert(F(x), F(y), F(0), F(1), SlotCol(slot), u, SlotV(slot))

\* 2^-21 of a pixel: less than EPS, and c + Tiny is a float for c in LerpCoords.
Tiny == <<1, 2097152>>

Nudged(c, s) == RAdd(F(c), RMul(F(s), Tiny))

\* Edges P -> Q along one axis with one end on a grid line and the other Tiny
\* off it: the delta along that axis is below EPS, the other delta is 0.
NearParallelEdges ==
    {<<Vert(Nudged(c, sp), F(o), F(0), F(1), SlotCol(1), F(0), SlotV(1)),
       Vert(Nudged(c, sq), F(o), F(0), F(1), SlotCol(3), F(1), SlotV(3))>> :
        <<c, o, sp, sq>> \in {e \in LerpCoords \X LerpCoords \X (-1 .. 1) \X (-1 .. 1) :
                                 e[3] # e[4] /\ (e[3] = 0 \/ e[4] = 0)}}
    \cup
    {<<Vert(F(o), Nudged(c, sp), F(0), F(1), SlotCol(1), F(0), SlotV(1)),
       Vert(F(o), Nudged(c, sq), F(0), F(1), SlotCol(3), F(1), SlotV(3))>> :
        <<c, o, sp, sq>> \in {e \in LerpCoords \X LerpCoords \X (-1 .. 1) \X (-1 .. 1) :
                                 e[3] # e[4] /\ (e[3] = 0 \/ e[4] = 0)}}

LerpInit ==
    /\ \/ \E px, py, qx, qy \in LerpCoords, pu, qu \in LerpAttrs :
             tri = <<LerpVert(1, px, py, pu), LerpVert(3, qx, qy, qu)>>
       \/ tri \in NearParallelEdges
    /\ clipR \in LerpRects
    /\ clipScale = F(1)
    /\ out_v = <<>> /\ out_i = <<>> /\ re_v = <<>> /\ re_i = <<>>
    /\ clipPc = "input"
    /\ clipSide = 0
    /\ cvSize = 0
    /\ DeviceIdle
    /\ BackupIdle
    /\ RenderIdle
    /\ LifeIdle

\* The call EmitClippedTri makes for an edge with exactly one end inside.
IntersectEdge ==
    /\ clipPc = "input"
    /\ \E side \in 0 .. 3, wide \in BOOLEAN :
          /\ InsideBySide(tri[1], clipR, side) # InsideBySide(tri[2], clipR, side)
          /\ clipSide' = side
          /\ out_v' = <<IntersectWithSide32(tri[1], tri[2], side, clipR, wide)>>
    /\ clipPc' = "intersected"
    /\ UNCHANGED <<tri, clipR, clipScale, out_i, re_v, re_i, cvSize, devVars, bkVars,
                   renderVars, lifeVars>>

LerpNext == IntersectEdge

SpecLerp == LerpInit /\ [][LerpNext]_vars

(***************************************************************************)
(* Specification SpecFan: the fan triangulation of EmitClippedTri on a     *)
(* scratch buffer of any size                                              *)
(***************************************************************************)
\* How far below 2^16 the vertex count of the scratch buffer starts.
NearWrap == 8

\* cv.size() when EmitClippedTri is called in the triangle loop of a command:
\* 0 for its first triangle and 3 after one unclipped triangle; counts around
\* 2^16 after some 21845 triangles.
FanSizes == {0, 3} \cup (WordMod - NearWrap .. WordMod + 1)

FanInit ==
    /\ tri = <<>> /\ clipR = <<>> /\ clipScale = F(1)
    /\ out_v = <<>> /\ out_i = <<>> /\ re_v = <<>> /\ re_i = <<>>
    /\ clipPc = "input" /\ clipSide = 0
    /\ cvSize \in FanSizes
    /\ DeviceIdle
    /\ BackupIdle
    /\ RenderIdle
    /\ LifeIdle

\* EmitClippedTri from "if (n < 3) return" on, for the polygon of n vertices the
\* four passes left; out_i collects the indices pushed since FanInit.
EmitPolygon ==
    /\ clipPc \in {"input", "emitted"}
    /\ \E n \in 0 .. PolySlots - 1 :
          \E res \in {EmitFan(n, cvSize, out_i)} : cvSize' = res[1] /\ out_i' = res[2]
    /\ clipPc' = IF clipPc = "input" THEN "emitted" ELSE "emitted2"
    /\ UNCHANGED <<tri, clipR, clipScale, out_v, re_v, re_i, clipSide, devVars, bkVars,
                   renderVars, lifeVars>>

FanNext == EmitPolygon

SpecFan == FanInit /\ [][FanNext]_vars

(***************************************************************************)
(* Specification SpecBackup: Capture and Restore on a device the host      *)
(* writes                                                                  *)
(***************************************************************************)
\* How many states the host writes at most.
MaxHostOps == 2

BackupInit == ClipIdle /\ DeviceIdle /\ BackupIdle /\ RenderIdle /\ LifeIdle

\* The host sets one render state, stage state, transform or the viewport.
HostSetState ==
    /\ hostOps < MaxHostOps
    /\ \E k \in ValueKeys : \E v \in ValuesOf(k) \ {dev[k]} :
          dev' = SetState([state |-> dev, refs |-> refs], k, v).state
    /\ hostOps' = hostOps + 1
    /\ mutated' = (mutated \/ bkPc # "idle")
    /\ UNCHANGED <<clipVars, refs, devBefore, refsBefore, backup, bkPc, renderVars, lifeVars>>

\* The host binds one of its textures, or none, to stage 0.
HostSetTexture ==
    /\ hostOps < MaxHostOps
    /\ \E surf \in {NullSurface, UserTexture(1), UserTexture(2)} \ {dev["TEX0"]} :
          LET d == SetTexture([state |-> dev, refs |-> refs], surf)
          IN  dev' = d.state /\ refs' = d.refs
    /\ hostOps' = hostOps + 1
    /\ mutated' = (mutated \/ bkPc # "idle")
    /\ UNCHANGED <<clipVars, devBefore, refsBefore, backup, bkPc, renderVars, lifeVars>>

\* ImGui_ImplDX7_StateBackup backup{}; backup.Capture(d3d)
BackupCapture ==
    /\ bkPc # "captured"
    /\ LET c == Capture([state |-> dev, refs |-> refs])
       IN  backup' = c.snap /\ dev' = c.d.state /\ refs' = c.d.refs
    /\ devBefore' = dev
    /\ refsBefore' = refs
    /\ bkPc' = "captured"
    /\ mutated' = FALSE
    /\ UNCHANGED <<clipVars, hostOps, renderVars, lifeVars>>

\* backup.Restore(d3d)
BackupRestore ==
    /\ bkPc = "captured"
    /\ LET d == Restore(backup, [state |-> dev, refs |-> refs])
       IN  dev' = d.state /\ refs' = d.refs
    /\ bkPc' = "restored"
    /\ UNCHANGED <<clipVars, devBefore, refsBefore, backup, mutated, hostOps,
                   renderVars, lifeVars>>

BackupNext == HostSetState \/ HostSetTexture \/ BackupCapture \/ BackupRestore

SpecBackup == BackupInit /\ [][BackupNext]_vars

(***************************************************************************)
(* Specification Spec: ImGui_ImplDX7_RenderDrawData, frame after frame, on *)
(* an initialised backend                                                  *)
(***************************************************************************)
\* How many commands the first draw list of a frame has at most.
MaxCmds == 2

DrawVert(px, py, u, v, col) == [pos |-> <<F(px), F(py)>>, uv |-> <<u, v>>, col |-> col]

DrawCmd(tex, clip, vtx_offset, idx_offset, elem_count) ==
    [UserCallback |-> "NULL", Writes |-> <<>>, TexID |-> tex,
     ClipRect |-> <<F(clip[1]), F(clip[2]), F(clip[3]), F(clip[4])>>,
     VtxOffset |-> vtx_offset, IdxOffset |-> idx_offset, ElemCount |-> elem_count]

CallbackCmd(callback, writes) ==
    [UserCallback |-> callback, Writes |-> writes, TexID |-> NullSurface,
     ClipRect |-> <<F(0), F(0), F(0), F(0)>>, VtxOffset |-> 0, IdxOffset |-> 0, ElemCount |-> 0]

\* A quad over (0,0)-(4,4) as two triangles, and a fifth vertex in its middle.
QuadVtx ==
    <<DrawVert(0, 0, F(0), F(0), <<255, 10, 20, 30>>),
      DrawVert(4, 0, F(1), F(0), <<255, 40, 50, 60>>),
      DrawVert(4, 4, F(1), F(1), <<128, 70, 80, 90>>),
      DrawVert(0, 4, F(0), F(1), <<255, 100, 110, 120>>),
      DrawVert(2, 2, <<1, 2>>, <<1, 2>>, <<64, 130, 140, 150>>)>>

QuadIdx == <<0, 1, 2, 0, 2, 3>>

\* The commands a frame draws the quad with.
Cmds ==
    {DrawCmd(UserTexture(1), <<0, 0, 4, 4>>, 0, 0, 6),
     DrawCmd(UserTexture(1), <<2, 2, 6, 6>>, 0, 0, 6),
     DrawCmd(UserTexture(1), <<5, 0, 6, 4>>, 0, 0, 6),
     DrawCmd(UserTexture(2), <<0, 5, 4, 6>>, 0, 0, 6),
     DrawCmd(UserTexture(1), <<-3, -3, -1, -1>>, 0, 0, 6),
     DrawCmd(UserTexture(1), <<4, 0, 5, 4>>, 0, 0, 6),
     DrawCmd(UserTexture(1), <<2, 2, 2, 3>>, 0, 0, 6),
     DrawCmd(UserTexture(2), <<0, 0, 4, 4>>, 1, 3, 3),
     CallbackCmd("user", <<<<"ZENABLE", "TRUE">>, <<"VIEWPORT", "VP_HALF">>,
                           <<"AMBIENT", "CALLBACK_AMBIENT">>>>),
     CallbackCmd("ResetRenderState", <<>>)}

RECURSIVE CmdBuffers(_)
CmdBuffers(n) ==
    IF n = 0 THEN {<<>>}
    ELSE CmdBuffers(n - 1)
         \cup {Append(b, c) : b \in {x \in CmdBuffers(n - 1) : Len(x) = n - 1}, c \in Cmds}

QuadList(cmds) == [VtxBuffer |-> QuadVtx, IdxBuffer |-> QuadIdx, CmdBuffer |-> cmds]

\* A second draw list: one triangle, one command.
TriangleList ==
    [VtxBuffer |-> <<DrawVert(1, 1, F(0), F(0), <<255, 1, 2, 3>>),
                     DrawVert(3, 1, F(1), F(0), <<255, 4, 5, 6>>),
                     DrawVert(1, 3, F(0), F(1), <<255, 7, 8, 9>>)>>,
     IdxBuffer |-> <<0, 1, 2>>,
     CmdBuffer |-> <<DrawCmd(UserTexture(1), <<0, 0, 4, 4>>, 0, 0, 3)>>]

\* Display position, size and framebuffer scale: a 4.5 x 4 display at scale 1
\* (framebuffer 4 x 4) and a 2 x 2 display at (1,1) at scale 2 (framebuffer 4 x 4).
View(n) ==
    IF n = 1
    THEN [DisplayPos |-> <<F(0), F(0)>>, DisplaySize |-> <<<<9, 2>>, F(4)>>,
          FramebufferScale |-> <<F(1), F(1)>>]
    ELSE [DisplayPos |-> <<F(1), F(1)>>, DisplaySize |-> <<F(2), F(2)>>,
          FramebufferScale |-> <<F(2), F(2)>>]

DrawData(view, lists) ==
    [DisplayPos |-> view.DisplayPos, DisplaySize |-> view.DisplaySize,
     FramebufferScale |-> view.FramebufferScale, CmdLists |-> lists]

\* The quad list alone, after the triangle list, and before it.
FramesOf(l) ==
    {DrawData(View(1), <<l>>), DrawData(View(1), <<TriangleList, l>>),
     DrawData(View(2), <<l, TriangleList>>)}

Frames == UNION {FramesOf(QuadList(cmds)) : cmds \in CmdBuffers(MaxCmds)}

\* After ImGui_ImplDX7_Init(device, ddraw) with both objects.
IoReady ==
    [BackendRendererUserData |-> BackendData("device", "ddraw"),
     BackendRendererName |-> "imgui_impl_dx7", RendererHasVtxOffset |-> TRUE,
     TexID |-> NullSurface]

LifeReady ==
    /\ io = IoReady /\ g_FontTexture = NullSurface /\ created = 0
    /\ comRefs = [d3d |-> 2, ddraw |-> 2] /\ fault = "none" /\ asserts = TRUE
    /\ sizeofImDrawIdx = 2
    /\ last = [call |-> "Init", ret |-> "true", font |-> NullSurface, created |-> 0]

Init == ClipIdle /\ DeviceIdle /\ BackupIdle /\ RenderIdle /\ LifeReady

Call(name, value) ==
    [call |-> name, ret |-> value, font |-> NullSurface, created |-> 0,
     attempts |-> <<>>, written |-> FALSE]

\* A call of CreateDeviceObjects, with g_FontTexture and created on entry, the
\* memory classes CreateSurface was called with, in order, and whether the
\* pixels were copied into the locked surface.
CreateCall(value, attempts, written) ==
    [call |-> "CreateDeviceObjects", ret |-> value, font |-> g_FontTexture,
     created |-> created, attempts |-> attempts, written |-> written]

\* The CreateSurface calls of ImGui_ImplDX7_CreateFontsTexture: video memory,
\* then system memory if that failed.
SurfaceAttempts(vram) ==
    IF vram THEN <<"DDSCAPS_VIDEOMEMORY">>
            ELSE <<"DDSCAPS_VIDEOMEMORY", "DDSCAPS_SYSTEMMEMORY">>

\* ImGui_ImplDX7_GetBackendData() with a current context.
GetBackendData == io.BackendRendererUserData

\* bd->d3d is read from a null bd, or Capture calls through a null device.
NullDeviceDereference == GetBackendData.null \/ GetBackendData.d3d = "NULL"

IndexAssertFails_Never == FALSE

\* IM_ASSERT(sizeof(ImDrawIdx) == 2) fails, in a build that has it.
IndexAssertFails == asserts /\ sizeofImDrawIdx # 2

DisplayEmpty_WidthOnly(dd) == RLe(dd.DisplaySize[1], F(0))

DisplayEmpty(dd) == RLe(dd.DisplaySize[1], F(0)) \/ RLe(dd.DisplaySize[2], F(0))

\* ImGui_ImplDX7_RenderDrawData(draw_data)
ImGui_ImplDX7_RenderDrawData(dd) ==
    /\ fault = "none"
    /\ frame' = dd
    /\ rPc' = "rendered"
    /\ devBefore' = dev
    /\ refsBefore' = refs
    /\ last' = Call("RenderDrawData", "void")
    /\ IF ~DisplayEmpty(dd) /\ IndexAssertFails
       THEN fault' = "assert" /\ log' = <<>> /\ UNCHANGED <<dev, refs>>
       ELSE IF ~DisplayEmpty(dd) /\ NullDeviceDereference
       THEN fault' = "crash" /\ log' = <<>> /\ UNCHANGED <<dev, refs>>
       ELSE \E r \in {RenderDrawData(dd, [state |-> dev, refs |-> refs])} :
               dev' = r.d.state /\ refs' = r.d.refs /\ log' = r.log /\ UNCHANGED fault
    /\ UNCHANGED <<clipVars, bkVars, io, g_FontTexture, created, comRefs, asserts,
                   sizeofImDrawIdx>>

RenderFrame == rPc = "idle" /\ \E dd \in Frames : ImGui_ImplDX7_RenderDrawData(dd)

\* The host presents the frame and draws its own scene for the next one; a host
\* with textured geometry leaves its second texture bound to stage 0.
HostFrame ==
    /\ fault = "none"
    /\ rPc = "rendered"
    /\ \E d \in {SetTexture([state |-> dev, refs |-> refs], UserTexture(2))} :
          dev' = d.state /\ refs' = d.refs
    /\ rPc' = "idle"
    /\ frame' = EmptyDrawData
    /\ log' = <<>>
    /\ UNCHANGED <<clipVars, bkVars, lifeVars, devBefore, refsBefore>>

Next == RenderFrame \/ HostFrame

Spec == Init /\ [][Next]_vars

(***************************************************************************)
(* Specification SpecLife: the public API called in any order, with        *)
(* DirectDraw calls succeeding or failing, in builds with and without      *)
(* IM_ASSERT                                                               *)
(***************************************************************************)
\* How many references ImGui_ImplDX7_Init calls hold on the device at most.
MaxInits == 2

\* ImDrawIdx is unsigned short, or unsigned int where the UI library is built
\* with 32-bit indices.
IndexSizes == {2, 4}

LifeInit ==
    /\ ClipIdle /\ DeviceIdle /\ BackupIdle /\ RenderIdle
    /\ io = IoUnset /\ g_FontTexture = NullSurface /\ created = 0
    /\ comRefs = HostComRefs /\ fault = "none" /\ last = NoCall
    /\ asserts \in BOOLEAN
    /\ sizeofImDrawIdx \in IndexSizes

Held(object) == IF object = "NULL" THEN 0 ELSE 1

\* The record of the last RenderDrawData call (frame, log, device before) is
\* dropped when another backend function is called.
RenderForgotten ==
    /\ frame' = EmptyDrawData /\ log' = <<>> /\ rPc' = "idle"
    /\ devBefore' = dev' /\ refsBefore' = refs'

InitAssertFails_Never == FALSE

\* IM_ASSERT(io.BackendRendererUserData == nullptr) fails, in a build that has it.
InitAssertFails == asserts /\ ~io.BackendRendererUserData.null

\* ImGui_ImplDX7_Init(device, ddraw)
ImGui_ImplDX7_Init(device, ddraw) ==
    /\ fault = "none"
    /\ comRefs.d3d <= MaxInits /\ comRefs.ddraw <= MaxInits
    /\ last' = Call("Init", "true")
    /\ IF InitAssertFails
       THEN fault' = "assert" /\ UNCHANGED <<io, comRefs>>
       ELSE /\ io' = [io EXCEPT !.BackendRendererUserData = BackendData(device, ddraw),
                                !.BackendRendererName = "imgui_impl_dx7",
                                !.RendererHasVtxOffset = TRUE]
            /\ comRefs' = [d3d   |-> comRefs.d3d + Held(device),
                           ddraw |-> comRefs.ddraw + Held(ddraw)]
            /\ UNCHANGED fault
    /\ UNCHANGED <<clipVars, dev, refs, bkVars, g_FontTexture, created,
                   asserts, sizeofImDrawIdx>>
    /\ RenderForgotten

\* ImGui_ImplDX7_Shutdown(): the assertion, InvalidateDeviceObjects, the two
\* Release calls through bd, then io cleared.
ImGui_ImplDX7_Shutdown ==
    /\ fault = "none"
    /\ last' = Call("Shutdown", "void")
    /\ IF asserts /\ GetBackendData.null
       THEN fault' = "assert" /\ UNCHANGED <<io, g_FontTexture, refs, comRefs>>
       ELSE /\ refs' = Release(refs, g_FontTexture)
            /\ g_FontTexture' = NullSurface
            /\ IF GetBackendData.null
               THEN /\ fault' = "crash"
                    /\ io' = [io EXCEPT !.TexID = NullSurface]
                    /\ UNCHANGED comRefs
               ELSE /\ comRefs' = [d3d   |-> comRefs.d3d - Held(GetBackendData.d3d),
                                   ddraw |-> comRefs.ddraw - Held(GetBackendData.ddraw)]
                    /\ io' = IoUnset
                    /\ UNCHANGED fault
    /\ UNCHANGED <<clipVars, bkVars, dev, created, asserts, sizeofImDrawIdx>>
    /\ RenderForgotten

\* ImGui_ImplDX7_NewFrame()
ImGui_ImplDX7_NewFrame ==
    /\ fault = "none"
    /\ last' = Call("NewFrame", "void")
    /\ fault' = IF asserts /\ GetBackendData.null THEN "assert" ELSE fault
    /\ UNCHANGED <<clipVars, dev, refs, bkVars, io, g_FontTexture, created,
                   comRefs, asserts, sizeofImDrawIdx>>
    /\ RenderForgotten

\* ImGui_ImplDX7_CreateDeviceObjects() = ImGui_ImplDX7_CreateFontsTexture().
\* vram, sysmem: whether CreateSurface succeeds with that memory; lock: whether
\* Lock succeeds; clobber: whether a failed CreateSurface nulls g_FontTexture.
ImGui_ImplDX7_CreateDeviceObjects(vram, sysmem, lock, clobber) ==
    /\ fault = "none"
    /\ (vram \/ sysmem) => created < MaxSurfaces
    /\ IF GetBackendData.null \/ GetBackendData.ddraw = "NULL"
       THEN /\ last' = CreateCall("false", <<>>, FALSE)
            /\ UNCHANGED <<io, g_FontTexture, refs, created>>
       ELSE IF ~vram /\ ~sysmem
       THEN /\ last' = CreateCall("false", SurfaceAttempts(vram), FALSE)
            /\ g_FontTexture' = IF clobber THEN NullSurface ELSE g_FontTexture
            /\ UNCHANGED <<io, refs, created>>
       ELSE /\ created' = created + 1
            /\ IF ~lock
               THEN /\ last' = CreateCall("false", SurfaceAttempts(vram), FALSE)
                    /\ g_FontTexture' = NullSurface
                    /\ UNCHANGED <<io, refs>>
               ELSE /\ last' = CreateCall("true", SurfaceAttempts(vram), TRUE)
                    /\ g_FontTexture' = FontTexture(created + 1)
                    /\ refs' = [refs EXCEPT ![FontTexture(created + 1)] = 1]
                    /\ io' = [io EXCEPT !.TexID = FontTexture(created + 1)]
    /\ UNCHANGED <<clipVars, bkVars, dev, comRefs, fault, asserts, sizeofImDrawIdx>>
    /\ RenderForgotten

\* Mutant: the font texture is released with its handle still published.
ImGui_ImplDX7_InvalidateDeviceObjects_KeepsTexID ==
    /\ fault = "none"
    /\ last' = Call("InvalidateDeviceObjects", "void")
    /\ refs' = Release(refs, g_FontTexture)
    /\ g_FontTexture' = NullSurface
    /\ UNCHANGED <<clipVars, bkVars, dev, created, comRefs, fault, asserts, sizeofImDrawIdx, io>>
    /\ RenderForgotten

\* ImGui_ImplDX7_InvalidateDeviceObjects() = ImGui_ImplDX7_DestroyFontsTexture()
ImGui_ImplDX7_InvalidateDeviceObjects ==
    /\ fault = "none"
    /\ last' = Call("InvalidateDeviceObjects", "void")
    /\ io' = [io EXCEPT !.TexID = NullSurface]
    /\ refs' = Release(refs, g_FontTexture)
    /\ g_FontTexture' = NullSurface
    /\ UNCHANGED <<clipVars, bkVars, dev, created, comRefs, fault, asserts, sizeofImDrawIdx>>
    /\ RenderForgotten

\* The frame of the example: the quad drawn with the published font texture, on
\* the display and on a minimised window; frames with a user callback and with
\* a user texture on displays of no height and of negative size.
LifeFrames ==
    {DrawData(View(1), <<QuadList(<<DrawCmd(io.TexID, <<0, 0, 4, 4>>, 0, 0, 6)>>)>>),
     [DrawData(View(1), <<QuadList(<<DrawCmd(io.TexID, <<0, 0, 4, 4>>, 0, 0, 6)>>)>>)
         EXCEPT !.DisplaySize = <<F(0), F(4)>>],
     [DrawData(View(1), <<QuadList(<<CallbackCmd("user", <<<<"ZENABLE", "TRUE">>>>),
                                    DrawCmd(io.TexID, <<0, 0, 4, 4>>, 0, 0, 6)>>)>>)
         EXCEPT !.DisplaySize = <<F(4), F(0)>>],
     [DrawData(View(2), <<TriangleList>>) EXCEPT !.DisplaySize = <<F(-1), F(-1)>>]}

Initialise == \E device \in {"NULL", "device"}, ddraw \in {"NULL", "ddraw"} :
                  ImGui_ImplDX7_Init(device, ddraw)

CreateObjects == \E vram, sysmem, lock, clobber \in BOOLEAN :
                     ImGui_ImplDX7_CreateDeviceObjects(vram, sysmem, lock, clobber)

RenderLife == \E dd \in LifeFrames : ImGui_ImplDX7_RenderDrawData(dd)

LifeNext ==
    \/ Initialise
    \/ ImGui_ImplDX7_Shutdown
    \/ ImGui_ImplDX7_NewFrame
    \/ CreateObjects
    \/ ImGui_ImplDX7_InvalidateDeviceObjects
    \/ RenderLife

SpecLife == LifeInit /\ [][LifeNext]_vars

(***************************************************************************)
(* Plane geometry used to state the clipper's properties.  Points are in   *)
(* grid steps (coordinates divided by clipScale).                          *)
(***************************************************************************)
Pt(v) == <<RDiv(v.x, clipScale), RDiv(v.y, clipScale)>>

Cross(o, p, q) ==
    RSub(RMul(RSub(p[1], o[1]), RSub(q[2], o[2])), RMul(RSub(p[2], o[2]), RSub(q[1], o[1])))

RMin(p, q) == IF RLt(q, p) THEN q ELSE p

RMax(p, q) == IF RLt(p, q) THEN q ELSE p

Between(lo, x, hi) == RLe(lo, x) /\ RLe(x, hi)

\* p is in the closed box spanned by q and r.
InBox(p, q, r) ==
    /\ Between(RMin(q[1], r[1]), p[1], RMax(q[1], r[1]))
    /\ Between(RMin(q[2], r[2]), p[2], RMax(q[2], r[2]))

TriPts == <<Pt(tri[1]), Pt(tri[2]), Pt(tri[3])>>

RectLo == <<RDiv(clipR.x, clipScale), RDiv(clipR.y, clipScale)>>

RectHi == <<RDiv(clipR.z, clipScale), RDiv(clipR.w, clipScale)>>

InRect(p) == InBox(p, RectLo, RectHi)

\* p is in the closed triangle T (which may be degenerate).
InTri(p, T) ==
    LET c1 == Cross(T[1], T[2], p)
        c2 == Cross(T[2], T[3], p)
        c3 == Cross(T[3], T[1], p)
    IN  /\ \/ (RLe(F(0), c1) /\ RLe(F(0), c2) /\ RLe(F(0), c3))
           \/ (RLe(c1, F(0)) /\ RLe(c2, F(0)) /\ RLe(c3, F(0)))
        /\ Between(RMin(T[1][1], RMin(T[2][1], T[3][1])), p[1],
                   RMax(T[1][1], RMax(T[2][1], T[3][1])))
        /\ Between(RMin(T[1][2], RMin(T[2][2], T[3][2])), p[2],
                   RMax(T[1][2], RMax(T[2][2], T[3][2])))

RectCorners ==
    {<<RectLo[1], RectLo[2]>>, <<RectHi[1], RectLo[2]>>,
     <<RectHi[1], RectHi[2]>>, <<RectLo[1], RectHi[2]>>}

\* Where the segment p-q crosses the vertical line x = c (none when parallel).
CrossX(p, q, c) ==
    IF p[1] = q[1] \/ ~Between(RMin(p[1], q[1]), c, RMax(p[1], q[1])) THEN {}
    ELSE {<<c, RAdd(p[2], RDiv(RMul(RSub(c, p[1]), RSub(q[2], p[2])), RSub(q[1], p[1])))>>}

\* Where the segment p-q crosses the horizontal line y = c (none when parallel).
CrossY(p, q, c) ==
    IF p[2] = q[2] \/ ~Between(RMin(p[2], q[2]), c, RMax(p[2], q[2])) THEN {}
    ELSE {<<RAdd(p[1], RDiv(RMul(RSub(c, p[2]), RSub(q[1], p[1])), RSub(q[2], p[2]))), c>>}

EdgeCrossings(p, q) ==
    {x \in CrossX(p, q, RectLo[1]) \cup CrossX(p, q, RectHi[1])
           \cup CrossY(p, q, RectLo[2]) \cup CrossY(p, q, RectHi[2]) : InRect(x)}

\* Every extreme point of T /\ R: a vertex of T in R, a corner of R in T, or a
\* crossing of an edge of T with an edge of R.
ExtremeCandidates ==
    LET T == TriPts
    IN  {T[k] : k \in {j \in 1 .. 3 : InRect(T[j])}}
        \cup {c \in RectCorners : InTri(c, T)}
        \cup EdgeCrossings(T[1], T[2]) \cup EdgeCrossings(T[2], T[3])
        \cup EdgeCrossings(T[3], T[1])

PtLt(p, q) == RLt(p[1], q[1]) \/ (p[1] = q[1] /\ RLt(p[2], q[2]))

\* p-q is a piece of the boundary of the convex hull of S.
HullEdge(S, p, q) ==
    /\ \/ \A x \in S : RLe(F(0), Cross(p, q, x))
       \/ \A x \in S : RLe(Cross(p, q, x), F(0))
    /\ \A x \in S \ {p, q} : ~(Cross(p, q, x) = F(0) /\ InBox(x, p, q))

RECURSIVE SumTwiceArea(_, _)
SumTwiceArea(c, E) ==
    IF E = {} THEN F(0)
    ELSE LET e == CHOOSE x \in E : TRUE
         IN  RAdd(RAbs(Cross(c, e[1], e[2])), SumTwiceArea(c, E \ {e}))

\* Twice the area of the convex hull of the finite point set S.
HullTwiceArea(S) ==
    IF Cardinality(S) < 3 THEN F(0)
    ELSE LET c == CHOOSE x \in S : TRUE
         IN  SumTwiceArea(c, {e \in S \X S : PtLt(e[1], e[2]) /\ HullEdge(S, e[1], e[2])})

\* Twice the area of T /\ R.
ExactTwiceArea == HullTwiceArea(ExtremeCandidates)

\* Twice the summed area of the triangles listed in idx (0-based WORDs into v).
RECURSIVE EmittedTwiceArea(_, _, _)
EmittedTwiceArea(v, idx, t) ==
    IF t >= Len(idx) THEN F(0)
    ELSE RAdd(RAbs(Cross(Pt(v[idx[t + 1] + 1]), Pt(v[idx[t + 2] + 1]), Pt(v[idx[t + 3] + 1]))),
              EmittedTwiceArea(v, idx, t + 3))

\* T and R have no point in common: a separating axis exists among the axes
\* of R and the edge normals of T.
SeparatedByEdge(T, i, j, k) ==
    \/ /\ RLt(F(0), Cross(T[i], T[j], T[k])) \/ (T[i] # T[j] /\ Cross(T[i], T[j], T[k]) = F(0))
       /\ \A c \in RectCorners : RLt(Cross(T[i], T[j], c), F(0))
    \/ /\ RLt(Cross(T[i], T[j], T[k]), F(0)) \/ (T[i] # T[j] /\ Cross(T[i], T[j], T[k]) = F(0))
       /\ \A c \in RectCorners : RLt(F(0), Cross(T[i], T[j], c))

Disjoint ==
    LET T == TriPts
    IN  \/ \A k \in 1 .. 3 : RLt(T[k][1], RectLo[1])
        \/ \A k \in 1 .. 3 : RLt(RectHi[1], T[k][1])
        \/ \A k \in 1 .. 3 : RLt(T[k][2], RectLo[2])
        \/ \A k \in 1 .. 3 : RLt(RectHi[2], T[k][2])
        \/ SeparatedByEdge(T, 1, 2, 3)
        \/ SeparatedByEdge(T, 2, 3, 1)
        \/ SeparatedByEdge(T, 3, 1, 2)

(***************************************************************************)
(* Properties of the clipper (checked under SpecClip)                      *)
(***************************************************************************)
VertInRect(v) ==
    /\ RLe(clipR.x, v.x) /\ RLe(v.x, clipR.z)
    /\ RLe(clipR.y, v.y) /\ RLe(v.y, clipR.w)

\* C1: every vertex EmitClippedTri appends satisfies minX <= x <= maxX and
\* minY <= y <= maxY, for every triangle and every rectangle with minX < maxX
\* and minY < maxY.
C1_OutputInsideRect ==
    clipPc # "input" => \A k \in 1 .. Len(out_v) : VertInRect(out_v[k])

\* The same statement restricted to inputs on the pixel grid (no edge shorter than EPS).
C1_OutputInsideRect_PixelGrid ==
    (clipPc # "input" /\ clipScale = F(1)) => \A k \in 1 .. Len(out_v) : VertInRect(out_v[k])

\* The largest side of the bounding box of T, in grid steps.
TriExtent ==
    LET T == TriPts
    IN  RMax(RSub(RMax(T[1][1], RMax(T[2][1], T[3][1])), RMin(T[1][1], RMin(T[2][1], T[3][1]))),
             RSub(RMax(T[1][2], RMax(T[2][2], T[3][2])), RMin(T[1][2], RMin(T[2][2], T[3][2]))))

\* The area tolerance: each of the at most 8 parallel fallbacks moves the
\* boundary by less than EPS along an edge no longer than the extent of T.
\* In grid steps: |dA| * clipScale <= 8 * EPS * extent.
AreaWithinTolerance(emitted, exact) ==
    RLe(RMul(RAbs(RSub(emitted, exact)), clipScale), RMul(RMul(F(16), EPS), TriExtent))

\* C2: the summed area of the fan triangles EmitClippedTri emits equals the
\* area of T /\ R within tolerance, and exactly for inputs on the pixel grid.
C2_AreaEqualsIntersection ==
    clipPc = "clipped" =>
        LET emitted == EmittedTwiceArea(out_v, out_i, 0)
            exact   == ExactTwiceArea
        IN  /\ AreaWithinTolerance(emitted, exact)
            /\ clipScale = F(1) => emitted = exact

\* C2 witness: a triangle partly inside R was clipped to a polygon of more
\* than three vertices with positive area.
C2_Witness ==
    /\ clipPc = "clipped"
    /\ Len(out_v) > 3
    /\ RLt(F(0), EmittedTwiceArea(out_v, out_i, 0))
    /\ \E k \in 1 .. 3 : ~VertInRect(tri[k])

AllInside == \A k \in 1 .. 3 : VertInRect(tri[k])

\* C3 as stated: a triangle with all three vertices inside R is appended as
\* a, b, c in that order, as one triangle (base, base+1, base+2), and
\* re-clipping the output returns it unchanged.
C3_InsideUnchangedInOrder ==
    /\ (clipPc = "clipped" /\ AllInside) => (out_v = tri /\ out_i = <<0, 1, 2>>)
    /\ (clipPc = "reclipped" /\ AllInside) => (re_v = out_v /\ re_i = out_i)

\* C3 amended: a triangle with all three vertices inside R is appended with
\* identical attributes as the rotation b, c, a, as the one triangle
\* (base, base+1, base+2); re-clipping the output returns the same three
\* vertices rotated once more (c, a, b).
C3_InsideRotated ==
    AllInside =>
        /\ clipPc = "clipped" => (out_v = <<tri[2], tri[3], tri[1]>> /\ out_i = <<0, 1, 2>>)
        /\ clipPc = "clipped2" =>
              /\ out_v = <<tri[2], tri[3], tri[1], tri[2], tri[3], tri[1]>>
              /\ out_i = <<0, 1, 2, 3, 4, 5>>
        /\ clipPc = "reclipped" =>
              /\ out_v = <<tri[2], tri[3], tri[1]>>
              /\ re_v = <<tri[3], tri[1], tri[2]>>
              /\ re_i = <<0, 1, 2>>

\* C3 witness: a proper triangle inside R, one vertex on the boundary, was
\* clipped and re-clipped.
C3_Witness ==
    /\ clipPc = "reclipped"
    /\ AllInside
    /\ Cross(TriPts[1], TriPts[2], TriPts[3]) # F(0)
    /\ \E k \in 1 .. 3 : tri[k].x = clipR.x

\* C4: when T has no point in common with R, EmitClippedTri appends no
\* vertex and no index.
C4_DisjointYieldsNothing ==
    (clipPc = "clipped" /\ Disjoint) => (out_v = <<>> /\ out_i = <<>>)

\* The same statement restricted to inputs on the pixel grid.
C4_DisjointYieldsNothing_PixelGrid ==
    (clipPc = "clipped" /\ Disjoint /\ clipScale = F(1)) => (out_v = <<>> /\ out_i = <<>>)

IsScenario == tri = ScenarioTri /\ clipR = ScenarioRect

\* C5 as stated: the scenario yields 4 output vertices of area 100,
\* fan-triangulated into 2 triangles (6 indices).
C5_ScenarioQuad ==
    (clipPc = "clipped" /\ IsScenario) =>
        /\ Len(out_v) = 4
        /\ Len(out_i) = 6
        /\ EmittedTwiceArea(out_v, out_i, 0) = F(200)

\* C5 amended: the scenario yields the triangle (10,10)-(20,10)-(10,20):
\* 3 output vertices of area 50, emitted as 1 triangle (3 indices).
C5_ScenarioTriangle ==
    (clipPc = "clipped" /\ IsScenario) =>
        /\ Len(out_v) = 3
        /\ <<Pt(out_v[1]), Pt(out_v[2]), Pt(out_v[3])>>
              = <<<<F(10), F(10)>>, <<F(20), F(10)>>, <<F(10), F(20)>>>>
        /\ out_i = <<0, 1, 2>>
        /\ EmittedTwiceArea(out_v, out_i, 0) = F(100)
        /\ ExactTwiceArea = F(100)

\* C5 witness: the scenario was clipped.
C5_Witness == clipPc = "clipped" /\ IsScenario /\ Len(out_v) > 0

\* C18: the vertex IntersectWithSide returns for a crossing edge equals P in
\* every attribute when t is 0 and equals Q in every attribute when t is 1.
C18_EndpointExact ==
    clipPc = "intersected" =>
        /\ SideParam(tri[1], tri[2], clipSide, clipR) = F(0) => out_v[1] = tri[1]
        /\ SideParam(tri[1], tri[2], clipSide, clipR) = F(1) => out_v[1] = tri[2]

\* The same in exact arithmetic, and t = 0 in float arithmetic.
EndpointExactInReals ==
    clipPc = "intersected" =>
        /\ SideParam(tri[1], tri[2], clipSide, clipR) = F(0) => out_v[1] = tri[1]
        /\ SideParam(tri[1], tri[2], clipSide, clipR) = F(1) =>
              IntersectWithSide(tri[1], tri[2], clipSide, clipR) = tri[2]

\* The edge's delta along the axis clipped by clipSide is below EPS.
NearParallel == SideParallel(tri[1], tri[2], clipSide)

\* Such an edge that leaves the half-plane (P inside, Q outside) yields P.
FallbackLeavingReturnsP ==
    (clipPc = "intersected" /\ NearParallel /\ InsideBySide(tri[1], clipR, clipSide)) =>
        out_v[1] = tri[1]

\* C22: for an edge P -> Q whose delta along the clipped axis is smaller in
\* magnitude than 1e-6, IntersectWithSide returns the endpoint inside the
\* half-plane: P when the edge leaves it, Q when the edge enters it.
C22_FallbackReturnsInsideEndpoint ==
    (clipPc = "intersected" /\ NearParallel) =>
        /\ InsideBySide(out_v[1], clipR, clipSide)
        /\ out_v[1] = IF InsideBySide(tri[1], clipR, clipSide) THEN tri[1] ELSE tri[2]

\* The vertex counts n of the working polygon: 3, then m after every pass of
\* the loop for (side = 0; side < 4 && n; ++side) that ran.
RECURSIVE PassSizes(_, _, _)
PassSizes(poly, side, R) ==
    IF side >= 4 \/ Len(poly) = 0 THEN <<Len(poly)>>
    ELSE CHOOSE sizes \in {<<Len(poly)>> \o PassSizes(next, side + 1, R) :
                              next \in {ClipSide(poly, side, R)}} : TRUE

\* C23: the working polygon of EmitClippedTri has at most 7 vertices after
\* each clipping pass, every pass adding at most one vertex to the previous
\* count, so no write to the 8-slot arrays poly and next is out of bounds.
C23_PolygonFitsScratch ==
    clipPc = "clipped" =>
        \A sizes \in {PassSizes(tri, 0, clipR)} :
            \A k \in 2 .. Len(sizes) :
                /\ sizes[k] <= sizes[k - 1] + 1
                /\ sizes[k] <= 7
                /\ sizes[k] <= PolySlots

\* A triangle that gains a vertex in each of the four passes: 7 vertices, 5 triangles.
C23_Witness ==
    /\ clipPc = "clipped"
    /\ PassSizes(tri, 0, clipR) = <<3, 4, 5, 6, 7>>
    /\ Len(out_v) = 7

\* The fan (base, base+i, base+i+1), i = 1 .. n-2, of a polygon at position base.
RECURSIVE FanAt(_, _, _)
FanAt(base, n, i) ==
    IF i >= n - 1 THEN <<>> ELSE <<base, base + i, base + i + 1>> \o FanAt(base, n, i + 1)

\* A call of EmitClippedTri that appended a polygon of n vertices pushed the
\* fan of the position the polygon got, and all indices are below the vertex count.
FanIndexesOwnPolygon ==
    \A n \in 3 .. PolySlots - 1 :
        cvSize' = cvSize + n =>
            /\ out_i' = out_i \o FanAt(cvSize, n, 1)
            /\ Len(out_i') > 0 /\ Len(out_i') % 3 = 0
            /\ \A k \in DOMAIN out_i' : out_i'[k] < cvSize'

\* C24: the indices of a draw call are a positive multiple of 3 in number and
\* all smaller than the number of vertices, every triangle being
\* (base, base+i, base+i+1) with base the position of its polygon's first
\* vertex in the scratch vertex buffer, for scratch buffers of any size,
\* beyond 65535 vertices included.
C24_FanIndexesOwnPolygon == [][FanIndexesOwnPolygon]_vars

\* The same for scratch buffers of at most 2^16 vertices.
FanIndexesOwnPolygonInWord == [][cvSize' <= WordMod => FanIndexesOwnPolygon]_vars

(***************************************************************************)
(* Properties of the state backup (checked under SpecBackup)               *)
(***************************************************************************)
\* C7: Capture() immediately followed by Restore(), with no device mutation in
\* between, leaves every device state value as before Capture and the
\* reference count of every surface, the texture bound to stage 0 included,
\* as before Capture; between the two the bound texture holds exactly the
\* one extra reference GetTexture took.
C7_CaptureRestoreIdentity ==
    /\ (bkPc = "restored" /\ ~mutated) => (dev = devBefore /\ refs = refsBefore)
    /\ (bkPc = "captured" /\ ~mutated) =>
          /\ dev = devBefore
          /\ refs = AddRef(refsBefore, devBefore["TEX0"])

\* C7 witness: Capture then Restore ran, unmutated, on a device with a
\* texture bound and with a state the host changed.
C7_Witness ==
    /\ bkPc = "restored"
    /\ ~mutated
    /\ dev["TEX0"] # NullSurface
    /\ \E k \in ValueKeys : dev[k] # HostValue(k)


(***************************************************************************)
(* Properties of ImGui_ImplDX7_RenderDrawData                              *)
(***************************************************************************)
Rendered == rPc = "rendered" /\ fault = "none"

\* Every device state the render pass writes.
WrittenKeys == {SetupTable[n][1] : n \in 1 .. Len(SetupTable)} \cup {"TEX0", "VIEWPORT"}

\* C6: when RenderDrawData returns, every device state the render pass writes
\* (all of SetupRenderState, the stage-0 texture, the viewport) has the value it
\* had when the call started.
C6_WrittenStateRestored ==
    Rendered => \A k \in WrittenKeys : dev[k] = devBefore[k]

\* The positions <<n, i>> of the commands of a frame.
CmdPositions(dd) ==
    UNION {{<<n, i>> : i \in 1 .. Len(dd.CmdLists[n].CmdBuffer)} : n \in 1 .. Len(dd.CmdLists)}

CmdAt(dd, pos) == dd.CmdLists[pos[1]].CmdBuffer[pos[2]]

EventsOf(ops, pos) ==
    SelectSeq(log, LAMBDA e : e.op \in ops /\ e.list = pos[1] /\ e.cmd = pos[2])

\* The triangles of a command, read from its own draw list: the transformed
\* copy of source vertex VtxOffset + IdxBuffer[IdxOffset + k] for every k.
OwnVertices(dd, pos) ==
    LET list == dd.CmdLists[pos[1]]
        cmd  == CmdAt(dd, pos)
    IN  [k \in 1 .. cmd.ElemCount |->
            ToDeviceVertex(list.VtxBuffer[cmd.VtxOffset + list.IdxBuffer[cmd.IdxOffset + k] + 1],
                           dd.DisplayPos, dd.FramebufferScale)]

\* The clipped geometry of a command: nothing for a callback command or a clip
\* rectangle that is empty or wholly outside the framebuffer, otherwise its own
\* triangles clipped against the clamped rectangle into empty buffers.
ClippedGeometry(dd, pos) ==
    LET cmd == CmdAt(dd, pos)
        cr  == ClipRectToFramebuffer(cmd, dd)
        fb  == FramebufferSize(dd)
    IN  IF cmd.UserCallback # "NULL" THEN <<<<>>, <<>>>>
        ELSE IF \/ RLe(cr[2][1], cr[1][1]) \/ RLe(cr[2][2], cr[1][2])
                \/ RLt(cr[2][1], F(0)) \/ RLt(cr[2][2], F(0))
                \/ RLt(F(fb[1]), cr[1][1]) \/ RLt(F(fb[2]), cr[1][2])
             THEN <<<<>>, <<>>>>
             ELSE ClipTriangles(OwnVertices(dd, pos), [k \in 1 .. cmd.ElemCount |-> k - 1],
                                cmd.ElemCount, ClampToFramebuffer(cr[1], cr[2], fb[1], fb[2]),
                                0, <<<<>>, <<>>>>)

\* The draw calls of a command are one call with geometry g, or none if g is empty.
DrawsAre(draws, g) ==
    IF g[2] = <<>> THEN draws = <<>>
    ELSE Len(draws) = 1 /\ draws[1].v = g[1] /\ draws[1].i = g[2]

\* C9: exactly one DrawIndexedPrimitive for each non-callback command whose
\* clipped geometry is non-empty, holding only that command's triangles, and
\* none for any other command.
C9_OneDrawPerVisibleCommand ==
    Rendered =>
        /\ \A pos \in CmdPositions(frame) :
              DrawsAre(EventsOf({"DrawIndexedPrimitive"}, pos), ClippedGeometry(frame, pos))
        /\ \A k \in 1 .. Len(log) :
              log[k].op = "DrawIndexedPrimitive" => <<log[k].list, log[k].cmd>> \in CmdPositions(frame)

\* Two consecutive commands of one list share a texture and both were drawn.
C9_Witness ==
    /\ Rendered
    /\ \E pos \in CmdPositions(frame) :
          /\ <<pos[1], pos[2] + 1>> \in CmdPositions(frame)
          /\ CmdAt(frame, pos).UserCallback = "NULL"
          /\ CmdAt(frame, <<pos[1], pos[2] + 1>>).UserCallback = "NULL"
          /\ CmdAt(frame, pos).TexID = CmdAt(frame, <<pos[1], pos[2] + 1>>).TexID
          /\ EventsOf({"DrawIndexedPrimitive"}, pos) # <<>>
          /\ EventsOf({"DrawIndexedPrimitive"}, <<pos[1], pos[2] + 1>>) # <<>>

\* The clip rectangle of a geometry command lies entirely beyond the framebuffer.
BeyondFramebuffer(dd, cmd) ==
    LET cr == ClipRectToFramebuffer(cmd, dd)
        fb == FramebufferSize(dd)
    IN  /\ cmd.UserCallback = "NULL"
        /\ \/ RLt(F(fb[1]), cr[1][1]) \/ RLt(F(fb[2]), cr[1][2])
           \/ RLt(cr[2][1], F(0)) \/ RLt(cr[2][2], F(0))

\* The frame without the commands whose clip rectangle is beyond the framebuffer.
WithoutBeyond(dd) ==
    [dd EXCEPT !.CmdLists =
        [n \in 1 .. Len(dd.CmdLists) |->
            [dd.CmdLists[n] EXCEPT !.CmdBuffer =
                SelectSeq(@, LAMBDA cmd : ~BeyondFramebuffer(dd, cmd))]]]

\* A device call without the position of its command inside the list.
Untagged(e) ==
    CASE e.op = "DrawIndexedPrimitive" -> <<e.op, e.list, e.v, e.i, e.state>>
      [] e.op = "SetTexture" -> <<e.op, e.list, e.tex>>
      [] OTHER -> <<e.op, e.list>>

UntaggedLog(l) == [k \in 1 .. Len(l) |-> Untagged(l[k])]

\* The frame made the device calls of r and left the device as r does.
SameOutcome(r) == UntaggedLog(log) = UntaggedLog(r.log) /\ dev = r.d.state /\ refs = r.d.refs

\* C10: a command whose clip rectangle lies entirely beyond the framebuffer gets
\* no draw call and no texture bind, and the frame makes the device calls it
\* would make without such commands.
C10_BeyondFramebufferSkipped ==
    Rendered =>
        /\ \A pos \in CmdPositions(frame) :
              BeyondFramebuffer(frame, CmdAt(frame, pos)) =>
                  EventsOf({"DrawIndexedPrimitive", "SetTexture"}, pos) = <<>>
        /\ WithoutBeyond(frame) # frame =>
              SameOutcome(RenderDrawData(WithoutBeyond(frame),
                                         [state |-> devBefore, refs |-> refsBefore]))

\* A command beyond the framebuffer was followed by a command that was drawn.
C10_Witness ==
    /\ Rendered
    /\ \E pos \in CmdPositions(frame) :
          /\ BeyondFramebuffer(frame, CmdAt(frame, pos))
          /\ \E k \in 1 .. Len(log) :
                /\ log[k].op = "DrawIndexedPrimitive"
                /\ \/ log[k].list > pos[1]
                   \/ log[k].list = pos[1] /\ log[k].cmd > pos[2]


ClampRectOf(cr, fb) == ClampToFramebuffer(cr[1], cr[2], fb[1], fb[2])

\* The rectangle a geometry command is clipped against: transformed, then clamped.
ClampedRect(dd, cmd) ==
    ClampRectOf(ClipRectToFramebuffer(cmd, dd), FramebufferSize(dd))

Degenerate(R) == RLe(R.z, R.x) \/ RLe(R.w, R.y)

\* C11: a geometry command whose clamped clip rectangle is degenerate
\* (maxX <= minX or maxY <= minY) gets no draw call.
C11_DegenerateRectDrawsNothing ==
    Rendered =>
        \A pos \in CmdPositions(frame) :
            (/\ CmdAt(frame, pos).UserCallback = "NULL"
             /\ Degenerate(ClampedRect(frame, CmdAt(frame, pos)))) =>
                EventsOf({"DrawIndexedPrimitive"}, pos) = <<>>

\* The device calls logged for a command, by name.
OpsOf(pos) ==
    [k \in 1 .. Len(EventsOf({"UserCallback", "SetupRenderState", "SetViewport", "SetTexture",
                              "DrawIndexedPrimitive"}, pos)) |->
        EventsOf({"UserCallback", "SetupRenderState", "SetViewport", "SetTexture",
                  "DrawIndexedPrimitive"}, pos)[k].op]

\* The draw calls issued after the user callback of the command at pos ran.
DrawsAfterCallback(pos) ==
    {k \in DOMAIN log :
        /\ log[k].op = "DrawIndexedPrimitive"
        /\ \E j \in 1 .. k - 1 :
              log[j].op = "UserCallback" /\ log[j].list = pos[1] /\ log[j].cmd = pos[2]}

\* The states ImGui_ImplDX7_SetupRenderState writes, and the viewport.
BaselineKeys == {SetupTable[n][1] : n \in 1 .. Len(SetupTable)} \cup {"VIEWPORT"}

Baseline(k) == IF k = "VIEWPORT" THEN devBefore["VIEWPORT"] ELSE SetupValue(k)

CallbackHandled(pos) ==
    OpsOf(pos) = IF CmdAt(frame, pos).UserCallback = "ResetRenderState"
                 THEN <<"SetupRenderState">>
                 ELSE <<"UserCallback", "SetupRenderState", "SetViewport">>

CallbackWrites(pos) ==
    {CmdAt(frame, pos).Writes[n] : n \in 1 .. Len(CmdAt(frame, pos).Writes)}

\* C19 as stated: a callback command is not clipped or drawn, its callback runs
\* once and the baseline is re-established after it, so that no state a
\* callback changed is in effect for a later draw call.
C19_CallbackStateNeverInEffect ==
    Rendered =>
        \A pos \in CmdPositions(frame) :
            CmdAt(frame, pos).UserCallback # "NULL" =>
                /\ CallbackHandled(pos)
                /\ \A k \in DrawsAfterCallback(pos), w \in CallbackWrites(pos) :
                      log[k].state[w[1]] # w[2]

\* C19: a callback command is not clipped or drawn; a user callback runs once,
\* followed by SetupRenderState and SetViewport of the captured viewport, the
\* sentinel by SetupRenderState alone; every later draw call is made with the
\* baseline value of every state SetupRenderState writes and the captured
\* viewport.
C19_CallbackThenBaseline ==
    Rendered =>
        \A pos \in CmdPositions(frame) :
            CmdAt(frame, pos).UserCallback # "NULL" =>
                /\ CallbackHandled(pos)
                /\ \A k \in DrawsAfterCallback(pos), key \in BaselineKeys :
                      log[k].state[key] = Baseline(key)

\* A user callback changed baseline state and a later command was drawn.
C19_Witness ==
    /\ Rendered
    /\ \E pos \in CmdPositions(frame) :
          /\ CmdAt(frame, pos).UserCallback = "user"
          /\ <<"ZENABLE", "TRUE">> \in CallbackWrites(pos)
          /\ DrawsAfterCallback(pos) # {}

DrawCalls == {k \in DOMAIN log : log[k].op = "DrawIndexedPrimitive"}

\* Position <<n, i>> comes before <<m, j>> in emission order.
EmittedBefore(p, q) == p[1] < q[1] \/ (p[1] = q[1] /\ p[2] < q[2])

PosOf(k) == <<log[k].list, log[k].cmd>>

\* The last SetTexture before log entry k, or 0.
LastBind(k) ==
    IF \E j \in 1 .. k - 1 : log[j].op = "SetTexture"
    THEN CHOOSE j \in 1 .. k - 1 :
             /\ log[j].op = "SetTexture"
             /\ \A i \in j + 1 .. k - 1 : log[i].op # "SetTexture"
    ELSE 0

\* C20: the draw calls are issued in emission order (draw lists in order, the
\* commands of a list in order), and the last stage-0 texture bind before each
\* draw call is the bind of that command's own texture, which is the texture
\* bound when the draw call is made.
C20_EmissionOrderOwnTexture ==
    Rendered =>
        /\ \A j, k \in DrawCalls : j < k => EmittedBefore(PosOf(j), PosOf(k))
        /\ \A k \in DrawCalls :
              /\ LastBind(k) # 0
              /\ PosOf(LastBind(k)) = PosOf(k)
              /\ log[LastBind(k)].tex = CmdAt(frame, PosOf(k)).TexID
              /\ log[k].state["TEX0"] = CmdAt(frame, PosOf(k)).TexID
              /\ \A j \in DrawCalls : j < k => j < LastBind(k)

\* Commands of two draw lists were drawn, with different textures, and two
\* commands with the same texture were drawn one after the other.
C20_Witness ==
    /\ Rendered
    /\ \E j, k \in DrawCalls :
          j < k /\ log[j].list # log[k].list /\ log[j].state["TEX0"] # log[k].state["TEX0"]
    /\ \E j, k \in DrawCalls :
          j < k /\ log[j].list = log[k].list /\ log[j].state["TEX0"] = log[k].state["TEX0"]

\* Vertex v is inside rectangle R on all four sides (edges included).
InsideAllSides(v, R) == \A side \in 0 .. 3 : InsideBySide(v, R, side)

\* A geometry command that passes the coarse reject and whose own vertices
\* all lie inside its clamped clip rectangle: the clipper copies them through.
DrawnUnclipped(dd, pos, own) ==
    /\ CmdAt(dd, pos).UserCallback = "NULL"
    /\ ~Degenerate(ClampedRect(dd, CmdAt(dd, pos)))
    /\ \A k \in DOMAIN own : InsideAllSides(own[k], ClampedRect(dd, CmdAt(dd, pos)))

\* Where an unclipped triangle's corner k (1 .. 3) is found in the output: every
\* one of the four passes pushes Q of each edge P -> Q, turning the triangle by one.
PassedThrough(k) == ((k + 1) % 3) + 1

\* The draw calls of the command are one call that holds, triangle by
\* triangle, the vertices own[k] as the four passes leave them.
ResolvedAs(draws, own) ==
    /\ Len(draws) = 1
    /\ Len(draws[1].v) = Len(own)
    /\ \A k \in DOMAIN own :
          draws[1].v[3 * ((k - 1) \div 3) + PassedThrough(((k - 1) % 3) + 1)] = own[k]
    /\ draws[1].i = [k \in DOMAIN own |-> k - 1]

\* A vertex of the command that is inside the rectangle is among the drawn ones.
InsideKept(draws, own, R) ==
    draws # <<>> =>
        \A k \in DOMAIN own :
            InsideAllSides(own[k], R) => \E j \in DOMAIN draws[1].v : draws[1].v[j] = own[k]

\* C21: the vertex that index position k of a geometry command resolves to is
\* the transformed copy of its own draw list's source vertex number
\* VtxOffset + IdxBuffer[IdxOffset + k], whatever lists and commands precede
\* it: a command drawn without clipping submits exactly these vertices,
\* triangle by triangle, and a clipped one keeps those inside its rectangle.
C21_IndexResolvesOwnListVertex ==
    Rendered =>
        \A pos \in CmdPositions(frame) :
            CmdAt(frame, pos).UserCallback = "NULL" =>
                \A own \in {OwnVertices(frame, pos)} :
                    /\ DrawnUnclipped(frame, pos, own) =>
                          ResolvedAs(EventsOf({"DrawIndexedPrimitive"}, pos), own)
                    /\ InsideKept(EventsOf({"DrawIndexedPrimitive"}, pos), own,
                                  ClampedRect(frame, CmdAt(frame, pos)))

\* A command of the second draw list with a vertex and an index offset is drawn
\* unclipped, and a second list is drawn after a list that holds a callback
\* or a command that drew nothing.
C21_Witness ==
    /\ Rendered
    /\ \E pos \in CmdPositions(frame) :
          /\ pos[1] > 1
          /\ CmdAt(frame, pos).UserCallback = "NULL"
          /\ \/ CmdAt(frame, pos).VtxOffset > 0 /\ CmdAt(frame, pos).IdxOffset > 0
             \/ \E i \in 1 .. Len(frame.CmdLists[1].CmdBuffer) :
                    EventsOf({"DrawIndexedPrimitive"}, <<1, i>>) = <<>>
          /\ DrawnUnclipped(frame, pos, OwnVertices(frame, pos))
          /\ EventsOf({"DrawIndexedPrimitive"}, pos) # <<>>

\* Every draw call of a frame has a positive multiple of 3 indices, all below
\* its vertex count.
DrawIndicesInRange ==
    Rendered =>
        \A k \in DrawCalls :
            /\ Len(log[k].i) > 0 /\ Len(log[k].i) % 3 = 0
            /\ \A j \in DOMAIN log[k].i : log[k].i[j] < Len(log[k].v)

(***************************************************************************)
(* Properties of the font texture and the lifecycle                        *)
(***************************************************************************)
\* The font surfaces DirectDraw created that still hold a reference.
UnreleasedFonts == {surf \in Surfaces : surf[1] = "font" /\ refs[surf] > 0}

\* C8: CreateDeviceObjects while an earlier font texture is unreleased returns
\* false and creates no surface; at most one font texture is unreleased at any
\* time, and none after InvalidateDeviceObjects or Shutdown.
C8_SecondUploadRejected ==
    /\ (last.call = "CreateDeviceObjects" /\ last.font # NullSurface) =>
          (last.ret = "false" /\ created = last.created)
    /\ Cardinality(UnreleasedFonts) <= 1
    /\ (fault = "none" /\ last.call \in {"InvalidateDeviceObjects", "Shutdown"}) =>
          UnreleasedFonts = {}


\* C12: RenderDrawData with a non-zero display size while no backend is
\* initialised is stopped, in a build with IM_ASSERT, by an assertion; the
\* null backend data is never dereferenced.
C12_RenderUninitialisedAsserts ==
    (/\ asserts
     /\ last.call = "RenderDrawData"
     /\ ~DisplayEmpty(frame)
     /\ GetBackendData.null) => fault = "assert"


\* The references ImGui_ImplDX7_Init took for the current backend data are the
\* only ones held beyond the host's own.
OneInitOutstanding ==
    /\ ~GetBackendData.null
    /\ comRefs.d3d = HostComRefs.d3d + Held(GetBackendData.d3d)
    /\ comRefs.ddraw = HostComRefs.ddraw + Held(GetBackendData.ddraw)

\* What one Init, the calls after it and one Shutdown leave, apart from surfaces.
ShutdownClearsBackend ==
    [][(ImGui_ImplDX7_Shutdown /\ OneInitOutstanding) =>
          (/\ fault' = "none"
           /\ comRefs' = HostComRefs
           /\ io' = IoUnset
           /\ g_FontTexture' = NullSurface)]_vars

\* C13: one Shutdown after one Init and any calls in between returns to the
\* state before Init: the host's reference counts, RendererHasVtxOffset clear,
\* no backend data, no font surface unreleased, the published handle 0.
C13_ShutdownReturnsToPreInit ==
    [][(ImGui_ImplDX7_Shutdown /\ OneInitOutstanding) =>
          (/\ fault' = "none"
           /\ comRefs' = HostComRefs
           /\ io' = IoUnset
           /\ g_FontTexture' = NullSurface
           /\ \A surf \in Surfaces : surf[1] = "font" => refs'[surf] = 0)]_vars


\* C14: in a build with IM_ASSERT, Init on an initialised backend and Shutdown
\* without a backend stop at the assertion: no reference is taken or released,
\* the backend data is not replaced and nothing else changes.
C14_MisuseStoppedByAssertion ==
    [][(/\ asserts
        /\ \/ Initialise /\ ~GetBackendData.null
           \/ ImGui_ImplDX7_Shutdown /\ GetBackendData.null) =>
          (/\ fault' = "assert"
           /\ UNCHANGED <<io, comRefs, g_FontTexture, created, dev, refs>>)]_vars

C14_Witness ==
    /\ fault = "assert"
    /\ last.call = "Init"
    /\ ~GetBackendData.null
    /\ comRefs.d3d = HostComRefs.d3d + 1


\* What a call of CreateDeviceObjects with these outcomes of CreateSurface and
\* Lock is to do: the memory classes in order, the return value with a font
\* texture held, written and published, or false with none held and nothing
\* newly published.
CreateOutcome(vram, sysmem, lock) ==
    /\ last'.attempts \in {<<>>, SurfaceAttempts(vram)}
    /\ last'.ret = "true" =>
          /\ g_FontTexture' # NullSurface
          /\ refs'[g_FontTexture'] = 1
          /\ last'.written
          /\ io'.TexID = g_FontTexture'
          /\ lock /\ (vram \/ sysmem)
    /\ last'.ret = "false" =>
          /\ g_FontTexture' = NullSurface
          /\ refs' = refs
          /\ io' = io

\* CreateDeviceObjects called while no font texture is held.
CreateFromNoFont ==
    [][\A vram, sysmem, lock, clobber \in BOOLEAN :
          (/\ g_FontTexture = NullSurface
           /\ ImGui_ImplDX7_CreateDeviceObjects(vram, sysmem, lock, clobber)) =>
              CreateOutcome(vram, sysmem, lock)]_vars

\* C15: CreateDeviceObjects tries video memory, then system memory only after
\* video memory failed; it returns true only with a texture created, written
\* and published; when both creations fail, Lock fails or there is no DirectDraw
\* object it returns false, holds no font texture, has released the surface it
\* created and publishes no new handle.
C15_CreateOrNoFont ==
    [][\A vram, sysmem, lock, clobber \in BOOLEAN :
          ImGui_ImplDX7_CreateDeviceObjects(vram, sysmem, lock, clobber) =>
              CreateOutcome(vram, sysmem, lock)]_vars


ZeroArea(dd) == ~RLt(F(0), dd.DisplaySize[1]) \/ ~RLt(F(0), dd.DisplaySize[2])

\* C16: RenderDrawData on a display of zero area makes no device call, whatever
\* the draw data holds: nothing is captured, written, bound or drawn, and the
\* device state and every reference count are as before the call.
C16_ZeroAreaTouchesNothing ==
    (last.call = "RenderDrawData" /\ ZeroArea(frame)) =>
        /\ log = <<>>
        /\ dev = devBefore
        /\ refs = refsBefore
        /\ fault = "none"

C16_Witness ==
    /\ last.call = "RenderDrawData"
    /\ ZeroArea(frame)
    /\ ~RLt(F(0), frame.DisplaySize[2])
    /\ ~GetBackendData.null
    /\ \E n \in DOMAIN frame.CmdLists : Len(frame.CmdLists[n].CmdBuffer) = 2


NoDrawCall == \A k \in DOMAIN log : log[k].op # "DrawIndexedPrimitive"

WideIndexRender ==
    /\ asserts
    /\ sizeofImDrawIdx > 2
    /\ last.call = "RenderDrawData"

\* C17 as stated: with an index type wider than 16 bits every RenderDrawData
\* call stops at the assertion and submits no draw call.
C17_EveryCallDetectsWideIndex ==
    WideIndexRender => (fault = "assert" /\ NoDrawCall)

\* C17: with an index type wider than 16 bits, in a build with IM_ASSERT, every
\* RenderDrawData call on a display of non-zero area stops at the assertion
\* before any device call; a call on a display of zero area returns before the
\* assertion, undetected; neither reads an index or submits a draw call.
C17_WideIndexDetectedWhenDrawing ==
    WideIndexRender =>
        /\ fault = (IF ZeroArea(frame) THEN "none" ELSE "assert")
        /\ log = <<>>
        /\ dev = devBefore /\ refs = refsBefore

C17_Witness ==
    /\ WideIndexRender
    /\ ~ZeroArea(frame)
    /\ fault = "assert"
    /\ ~GetBackendData.null /\ GetBackendData.d3d # "NULL"

\* The handle published with SetTexID is 0 or a font surface not yet released.
PublishedUnreleased(texid, r) ==
    texid = NullSurface \/ (texid[1] = "font" /\ r[texid] > 0)

\* C25: after any CreateDeviceObjects, InvalidateDeviceObjects or Shutdown
\* call, with creation and lock succeeding or failing, the published texture
\* handle is 0 or a surface the backend has not released: a call that
\* releases a font surface leaves the handle 0, and the handle is set only by
\* a creation that succeeded in create, lock and pixel copy, to its surface.
C25_PublishedHandleUnreleased ==
    [][/\ PublishedUnreleased(io'.TexID, refs')
       /\ \A surf \in Surfaces :
             (surf[1] = "font" /\ refs'[surf] < refs[surf]) => io'.TexID = NullSurface
       /\ (io'.TexID # io.TexID /\ io'.TexID # NullSurface) =>
             /\ last'.call = "CreateDeviceObjects" /\ last'.ret = "true" /\ last'.written
             /\ io'.TexID = g_FontTexture']_vars

\* A second creation failed after its surface was created: the handle of the
\* first surface stays published, and that surface is unreleased.
C25_Witness ==
    /\ last.call = "CreateDeviceObjects" /\ last.ret = "false"
    /\ created = 2 /\ g_FontTexture = NullSurface
    /\ io.TexID = FontTexture(1) /\ refs[FontTexture(1)] > 0

====
